---- MODULE Spec2Model ----
(***************************************************************************)
(* langfilter: the track-selection decision engine (config.py), the        *)
(* interactive session and the non-interactive selector (interactive.py),  *)
(* the per-file analysis that drives them, the two-phase batch run of main *)
(* (main.py), and the remux step of one file (processor.py).               *)
(*                                                                         *)
(* Python values are encoded as follows.  A str is a TLA+ string, except   *)
(* the line read from the terminal, which is a sequence of one-character   *)
(* strings so that strip/lower/split/int can be modelled character by      *)
(* character.  None is the string None for an optional language, NoIndex   *)
(* for an optional list index and NoTrack for an optional track.  A list   *)
(* is a sequence (list index i is sequence position i+1).                  *)
(***************************************************************************)
EXTENDS Integers, Sequences, FiniteSets, TLC

VARIABLES
    config,                   \* the LangFilterConfig of the run
    audio_tracks,             \* get_audio_tracks(filename)
    subtitle_tracks,          \* get_subtitle_tracks(filename)
    non_interactive,          \* args.non_interactive
    pc,                       \* position of the control flow
    kind,                     \* "audio" or "subtitle": which selection function runs
    tracks_to_remove,         \* session local: set of 0-based indices
    current_default,          \* session local: 0-based index or NoIndex
    user_input,               \* session local: the last line read, stripped and lowered
    prev_remove,              \* history: tracks_to_remove before the last line was handled
    prev_default,             \* history: current_default before the last line was handled
    repeated,                 \* history: the last line read equals the line read before it
    before_repeat,            \* history: when repeated, tracks_to_remove before the first
                              \* of the two equal lines was handled
    selected_audio_tracks,    \* local of analyze_and_select_tracks
    default_audio_track,      \* local of analyze_and_select_tracks
    default_audio_index,      \* local of analyze_and_select_tracks
    selected_subtitle_tracks, \* local of analyze_and_select_tracks
    default_subtitle_track,   \* local of analyze_and_select_tracks
    default_subtitle_index,   \* local of analyze_and_select_tracks
    result,                   \* the FileAnalysisResult returned, or NoResult
    removal_out,              \* engine call: value returned by apply_defaults
    kept_out,                 \* engine call: value returned by the non-interactive selector
    reapply_out,              \* engine call: apply_defaults on kept_out
    default_out,              \* engine call: value returned by find_default_*_track
    rules_out,                \* engine call: value returned by has_rules
    filenames,                \* args.filenames: what each path is on disk
    output_given,             \* args.output is set
    config_arg,               \* args.config is set
    config_file,              \* the configuration file: "missing", "malformed" or "ok"
    config_content,           \* what load_from_file reads from a well-formed file
    valid_files,              \* main local: positions in filenames of the files to analyse
    file_index,               \* main local: position in valid_files of the Phase 1 loop
    file_selections,          \* main local: the selections recorded in Phase 1
    analysis_failed,          \* main local: files whose analysis failed
    success_count,            \* main local: files processed successfully in Phase 2
    processing_failed,        \* main local: files whose processing failed
    attempted,                \* history: files handed to process_file_with_selection
    cancelled_files,          \* history: files with a session that ended cancelled
    session_end,              \* history: how the last session of the file ended
    exit_code,                \* value returned by main, or NoCode
    replace_original_file,    \* argument of process_file_with_selection
    create_backup,            \* argument of process_file_with_selection
    remux,                    \* how mkvmerge ended: "none" before the call, "not_run"
                              \* when remove_unwanted_tracks raised before running it,
                              \* "nonzero" or "zero" for its exit status
    output_written,           \* history: mkvmerge wrote (part of) the output file
    output_exists,            \* the output file exists
    backup_exists,            \* a backup of the original file exists
    backups,                  \* the backup names that exist when the call starts:
                              \* 0 for _original_<name>, k for _original_<k>_<name>
    backup_file,              \* the name create_backup has written, or NoIndex
    original_replaced,        \* the original file was replaced by the output file
    process_result            \* value returned by process_file_with_selection

vars == <<config, audio_tracks, subtitle_tracks, non_interactive, pc, kind,
          tracks_to_remove, current_default, user_input, prev_remove, prev_default,
          repeated, before_repeat,
          selected_audio_tracks, default_audio_track, default_audio_index,
          selected_subtitle_tracks, default_subtitle_track, default_subtitle_index,
          result, removal_out, kept_out, reapply_out, default_out, rules_out,
          filenames, output_given, config_arg, config_file, config_content,
          valid_files, file_index, file_selections, analysis_failed, success_count,
          processing_failed, attempted, cancelled_files, session_end, exit_code,
          replace_original_file, create_backup, remux, output_written, output_exists,
          backup_exists, backups, backup_file, original_replaced, process_result>>

-----------------------------------------------------------------------------
(* Bounds of the model *)

\* longest track list handed to the engine functions
MaxTracks == 3
\* longest track list of an interactive session
MaxSessionTracks == 3
\* longest track list of one kind in the per-file analysis
MaxFileTracks == 2
\* longest audio track list of a non-interactive run
MaxRuleTracks == 3
\* most paths given to one run of main
MaxFiles == 2
\* most backups of a file that exist before it is processed
MaxBackups == 2

-----------------------------------------------------------------------------
(* Values *)

None == "<None>"
NoIndex == -1
\* main has not returned
NoCode == -1
NoTrack == [track_number |-> 0, mkvmerge_id |-> -1, language |-> None]
\* user_input before a line was read
NoLine == <<"<None>">>

\* None where a list of tracks is expected
NoList == <<NoTrack>>

\* a FileAnalysisResult (main.py); NoResult before analyze_and_select_tracks returns
MakeResult(st, all, sel, all_sub, sel_sub, da, ds) ==
    [status |-> st, all_tracks |-> all, selected_tracks |-> sel,
     all_subtitle_tracks |-> all_sub, selected_subtitle_tracks |-> sel_sub,
     default_audio_track |-> da, default_subtitle_track |-> ds]

NoResult == MakeResult("<None>", NoList, NoList, NoList, NoList, NoTrack, NoTrack)

\* language tags as mkvinfo may report them (parser.py stores them verbatim)
TrackLanguages == {None, "eng", "ENG", "jpn"}
\* language tags of the configuration (lowercased when loaded)
ConfigLanguages == {"eng", "jpn", "unknown"}

\* str.lower() on the language tags of the model
Lower(s) ==
    CASE s = "ENG" -> "eng"
      [] s = "JPN" -> "jpn"
      [] OTHER -> s

\* AudioTrack / SubtitleTrack: ids are unique in a file, track 0 is the video
MakeTracks(langs, first_id) ==
    [k \in 1..Len(langs) |->
        [track_number |-> first_id + k, mkvmerge_id |-> first_id + k - 1,
         language |-> langs[k]]]

\* all sequences over S of length 0..n
SeqsUpTo(S, n) == UNION {[1..k -> S] : k \in 0..n}

\* a LangFilterConfig object
MakeConfig(ka, ra, ks, rs, da, ds) ==
    [is_none |-> FALSE,
     keep_languages |-> ka, remove_languages |-> ra,
     keep_subtitle_languages |-> ks, remove_subtitle_languages |-> rs,
     default_audio_language |-> da, default_subtitle_language |-> ds]

\* config = None: no configuration file was found or it could not be loaded
NoConfig ==
    [is_none |-> TRUE,
     keep_languages |-> {}, remove_languages |-> {},
     keep_subtitle_languages |-> {}, remove_subtitle_languages |-> {},
     default_audio_language |-> None, default_subtitle_language |-> None]

-----------------------------------------------------------------------------
(* config.py: the selection engine *)

\* (track.language or "unknown").lower()
TrackLang(track) ==
    Lower(IF track.language = None THEN "unknown" ELSE track.language)

\* the loop of apply_defaults / apply_subtitle_defaults from index i on,
\* acc being tracks_to_remove so far
RECURSIVE ApplyRulesOneBased(_, _, _, _, _)
ApplyRulesOneBased(tracks, keep, remove, i, acc) ==
    IF i >= Len(tracks) THEN acc
    ELSE LET track_lang == TrackLang(tracks[i + 1])
             a1 == IF keep # {} /\ track_lang \notin keep THEN acc \cup {i + 1} ELSE acc
             a2 == IF remove # {} /\ track_lang \in remove THEN a1 \cup {i + 1} ELSE a1
         IN ApplyRulesOneBased(tracks, keep, remove, i + 1, a2)

RECURSIVE ApplyRulesElif(_, _, _, _, _)
ApplyRulesElif(tracks, keep, remove, i, acc) ==
    IF i >= Len(tracks) THEN acc
    ELSE LET track_lang == TrackLang(tracks[i + 1])
             a1 == IF keep # {}
                   THEN (IF track_lang \notin keep THEN acc \cup {i} ELSE acc)
                   ELSE (IF remove # {} /\ track_lang \in remove THEN acc \cup {i} ELSE acc)
         IN ApplyRulesElif(tracks, keep, remove, i + 1, a1)

RECURSIVE ApplyRules(_, _, _, _, _)
ApplyRules(tracks, keep, remove, i, acc) ==
    IF i >= Len(tracks) THEN acc
    ELSE LET track_lang == TrackLang(tracks[i + 1])
             a1 == IF keep # {} /\ track_lang \notin keep THEN acc \cup {i} ELSE acc
             a2 == IF remove # {} /\ track_lang \in remove THEN a1 \cup {i} ELSE a1
         IN ApplyRules(tracks, keep, remove, i + 1, a2)

apply_defaults(cfg, tracks) ==
    ApplyRules(tracks, cfg.keep_languages, cfg.remove_languages, 0, {})

apply_subtitle_defaults(cfg, tracks) ==
    ApplyRules(tracks, cfg.keep_subtitle_languages, cfg.remove_subtitle_languages, 0, {})

\* the scan of find_default_*_track from position k on
RECURSIVE FirstMatchLast(_, _, _)
FirstMatchLast(tracks, lang, k) ==
    IF k > Len(tracks) THEN NoTrack
    ELSE LET rest == FirstMatchLast(tracks, lang, k + 1)
         IN IF rest # NoTrack THEN rest
            ELSE IF TrackLang(tracks[k]) = lang THEN tracks[k] ELSE NoTrack

RECURSIVE FirstMatch(_, _, _)
FirstMatch(tracks, lang, k) ==
    IF k > Len(tracks) THEN NoTrack
    ELSE IF TrackLang(tracks[k]) = lang THEN tracks[k]
    ELSE FirstMatch(tracks, lang, k + 1)

find_default_audio_track(cfg, tracks) ==
    IF cfg.default_audio_language = None THEN NoTrack
    ELSE FirstMatch(tracks, cfg.default_audio_language, 1)

find_default_subtitle_track(cfg, tracks) ==
    IF cfg.default_subtitle_language = None THEN NoTrack
    ELSE FirstMatch(tracks, cfg.default_subtitle_language, 1)

has_rules_or_default(cfg) ==
    \/ cfg.keep_languages # {}
    \/ cfg.remove_languages # {}
    \/ cfg.keep_subtitle_languages # {}
    \/ cfg.remove_subtitle_languages # {}
    \/ cfg.default_audio_language # None
    \/ cfg.default_subtitle_language # None

has_rules(cfg) ==
    \/ cfg.keep_languages # {}
    \/ cfg.remove_languages # {}
    \/ cfg.keep_subtitle_languages # {}
    \/ cfg.remove_subtitle_languages # {}

-----------------------------------------------------------------------------
(* interactive.py: the non-interactive selectors *)

\* [track for i, track in enumerate(tracks) if i not in tracks_to_remove], from index i on
RECURSIVE KeepTracksReversed(_, _, _)
KeepTracksReversed(tracks, remove, i) ==
    IF i >= Len(tracks) THEN <<>>
    ELSE IF i \in remove THEN KeepTracksReversed(tracks, remove, i + 1)
    ELSE Append(KeepTracksReversed(tracks, remove, i + 1), tracks[i + 1])

RECURSIVE KeepTracks(_, _, _)
KeepTracks(tracks, remove, i) ==
    IF i >= Len(tracks) THEN <<>>
    ELSE IF i \in remove THEN KeepTracks(tracks, remove, i + 1)
    ELSE <<tracks[i + 1]>> \o KeepTracks(tracks, remove, i + 1)

select_tracks_non_interactive(tracks, cfg) ==
    IF ~has_rules(cfg) THEN tracks
    ELSE KeepTracks(tracks, apply_defaults(cfg, tracks), 0)

select_subtitle_tracks_non_interactive(tracks, cfg) ==
    IF cfg.keep_subtitle_languages = {} /\ cfg.remove_subtitle_languages = {} THEN tracks
    ELSE KeepTracks(tracks, apply_subtitle_defaults(cfg, tracks), 0)

-----------------------------------------------------------------------------
(* interactive.py: reading and parsing a line of input *)

\* str.lower() on the characters of the model's input lines
LowerChar(c) ==
    CASE c = "Q" -> "q"
      [] c = "N" -> "n"
      [] c = "C" -> "c"
      [] c = "D" -> "d"
      [] OTHER -> c

LowerLine(s) == [k \in 1..Len(s) |-> LowerChar(s[k])]

\* str.strip()
RECURSIVE LStrip(_)
LStrip(s) == IF s # <<>> /\ Head(s) = " " THEN LStrip(Tail(s)) ELSE s

RECURSIVE RStrip(_)
RStrip(s) == IF s # <<>> /\ s[Len(s)] = " " THEN RStrip(SubSeq(s, 1, Len(s) - 1)) ELSE s

Strip(s) == RStrip(LStrip(s))

\* str.split(): the maximal runs of non-blank characters of s from position k on,
\* cur being the run read so far
RECURSIVE SplitFrom(_, _, _)
SplitFrom(s, k, cur) ==
    IF k > Len(s) THEN (IF cur = <<>> THEN <<>> ELSE <<cur>>)
    ELSE IF s[k] = " "
         THEN (IF cur = <<>> THEN SplitFrom(s, k + 1, <<>>)
               ELSE <<cur>> \o SplitFrom(s, k + 1, <<>>))
         ELSE SplitFrom(s, k + 1, Append(cur, s[k]))

Split(s) == SplitFrom(s, 1, <<>>)

Digits == {"0", "1", "2", "3", "4", "5", "6", "7", "8", "9"}

DigitValue(c) ==
    CASE c = "0" -> 0 [] c = "1" -> 1 [] c = "2" -> 2 [] c = "3" -> 3 [] c = "4" -> 4
      [] c = "5" -> 5 [] c = "6" -> 6 [] c = "7" -> 7 [] c = "8" -> 8 [] c = "9" -> 9

RECURSIVE DigitsValue(_, _, _)
DigitsValue(s, k, acc) ==
    IF k > Len(s) THEN acc ELSE DigitsValue(s, k + 1, acc * 10 + DigitValue(s[k]))

\* int(str): blanks around are ignored, an optional sign, then decimal digits;
\* ok is FALSE where Python raises ValueError
IntOf(str) ==
    LET t == Strip(str)
        signed == t # <<>> /\ t[1] \in {"-", "+"}
        digits == IF signed THEN Tail(t) ELSE t
    IN IF digits = <<>> \/ \E k \in 1..Len(digits) : digits[k] \notin Digits
       THEN [ok |-> FALSE, val |-> 0]
       ELSE [ok |-> TRUE,
             val |-> IF signed /\ t[1] = "-" THEN 0 - DigitsValue(digits, 1, 0)
                     ELSE DigitsValue(digits, 1, 0)]

\* _parse_default_track_selection(input_str, max_tracks): 0-based index or NoIndex
_parse_default_unchecked(input_str, max_tracks) ==
    IF input_str = <<>> \/ input_str[1] # "d" THEN NoIndex
    ELSE LET track_num == IntOf(Tail(input_str))
         IN IF track_num.ok THEN track_num.val - 1 ELSE NoIndex

_parse_default_track_selection(input_str, max_tracks) ==
    IF input_str = <<>> \/ input_str[1] # "d" THEN NoIndex
    ELSE LET track_num == IntOf(Tail(input_str))
         IN IF track_num.ok /\ 1 <= track_num.val /\ track_num.val <= max_tracks
            THEN track_num.val - 1
            ELSE NoIndex

\* position of the first "-" of part, 0 when there is none
FirstHyphen(part) ==
    IF \E k \in 1..Len(part) : part[k] = "-"
    THEN CHOOSE k \in 1..Len(part) :
            part[k] = "-" /\ \A j \in 1..(k - 1) : part[j] # "-"
    ELSE 0

ParseFailed == [indices |-> <<>>, success |-> FALSE]

\* the loop of _parse_track_selection from part k on, indices being the list so far
RECURSIVE ParsePartsPartial(_, _, _, _)
ParsePartsPartial(input_parts, max_tracks, k, indices) ==
    IF k > Len(input_parts) THEN [indices |-> indices, success |-> TRUE]
    ELSE LET part == input_parts[k]
             h == FirstHyphen(part)
             stop == [indices |-> indices, success |-> TRUE]
         IN IF h > 0
            THEN LET start == IntOf(SubSeq(part, 1, h - 1))
                     end == IntOf(SubSeq(part, h + 1, Len(part)))
                 IN IF ~start.ok \/ ~end.ok THEN stop
                    ELSE IF start.val < 1 \/ end.val < 1
                            \/ start.val > max_tracks \/ end.val > max_tracks
                         THEN stop
                    ELSE IF start.val > end.val THEN stop
                    ELSE ParsePartsPartial(input_parts, max_tracks, k + 1,
                            indices \o [j \in 1..(end.val - start.val + 1) |->
                                            start.val + j - 2])
            ELSE LET track_num == IntOf(part)
                 IN IF ~track_num.ok THEN stop
                    ELSE IF 1 <= track_num.val /\ track_num.val <= max_tracks
                         THEN ParsePartsPartial(input_parts, max_tracks, k + 1,
                                 Append(indices, track_num.val - 1))
                    ELSE stop

RECURSIVE ParseParts(_, _, _, _)
ParseParts(input_parts, max_tracks, k, indices) ==
    IF k > Len(input_parts) THEN [indices |-> indices, success |-> TRUE]
    ELSE LET part == input_parts[k]
             h == FirstHyphen(part)
         IN IF h > 0
            THEN LET start == IntOf(SubSeq(part, 1, h - 1))
                     end == IntOf(SubSeq(part, h + 1, Len(part)))
                 IN IF ~start.ok \/ ~end.ok THEN ParseFailed
                    ELSE IF start.val < 1 \/ end.val < 1
                            \/ start.val > max_tracks \/ end.val > max_tracks
                         THEN ParseFailed
                    ELSE IF start.val > end.val THEN ParseFailed
                    ELSE ParseParts(input_parts, max_tracks, k + 1,
                            indices \o [j \in 1..(end.val - start.val + 1) |->
                                            start.val + j - 2])
            ELSE LET track_num == IntOf(part)
                 IN IF ~track_num.ok THEN ParseFailed
                    ELSE IF 1 <= track_num.val /\ track_num.val <= max_tracks
                         THEN ParseParts(input_parts, max_tracks, k + 1,
                                 Append(indices, track_num.val - 1))
                    ELSE ParseFailed

\* _parse_track_selection(input_parts, max_tracks): (track_indices, success)
_parse_track_selection(input_parts, max_tracks) ==
    ParseParts(input_parts, max_tracks, 1, <<>>)

\* the toggle loop of the session from position k of track_indices on
RECURSIVE ToggleAllNet(_, _, _, _)
ToggleAllNet(track_indices, k, remove, dflt) ==
    IF k > Len(track_indices)
    THEN [remove |-> remove, default |-> IF dflt \in remove THEN NoIndex ELSE dflt]
    ELSE LET index == track_indices[k]
         IN IF index \in remove
            THEN ToggleAllNet(track_indices, k + 1, remove \ {index}, dflt)
            ELSE ToggleAllNet(track_indices, k + 1, remove \cup {index}, dflt)

RECURSIVE ToggleAllAddOnly(_, _, _, _)
ToggleAllAddOnly(track_indices, k, remove, dflt) ==
    IF k > Len(track_indices) THEN [remove |-> remove, default |-> dflt]
    ELSE LET index == track_indices[k]
         IN ToggleAllAddOnly(track_indices, k + 1, remove \cup {index},
                             IF index \notin remove /\ index = dflt THEN NoIndex ELSE dflt)

RECURSIVE ToggleAllKeepDefault(_, _, _, _)
ToggleAllKeepDefault(track_indices, k, remove, dflt) ==
    IF k > Len(track_indices) THEN [remove |-> remove, default |-> dflt]
    ELSE LET index == track_indices[k]
         IN IF index \in remove
            THEN ToggleAllKeepDefault(track_indices, k + 1, remove \ {index}, dflt)
            ELSE ToggleAllKeepDefault(track_indices, k + 1, remove \cup {index}, dflt)

RECURSIVE ToggleAll(_, _, _, _)
ToggleAll(track_indices, k, remove, dflt) ==
    IF k > Len(track_indices) THEN [remove |-> remove, default |-> dflt]
    ELSE LET index == track_indices[k]
         IN IF index \in remove
            THEN ToggleAll(track_indices, k + 1, remove \ {index}, dflt)
            ELSE ToggleAll(track_indices, k + 1, remove \cup {index},
                           IF index = dflt THEN NoIndex ELSE dflt)

\* next((i for i, track in enumerate(tracks) if track.mkvmerge_id == id), None)
IndexOfId(tracks, id) ==
    IF \E i \in 0..(Len(tracks) - 1) : tracks[i + 1].mkvmerge_id = id
    THEN CHOOSE i \in 0..(Len(tracks) - 1) :
            /\ tracks[i + 1].mkvmerge_id = id
            /\ \A j \in 0..(i - 1) : tracks[j + 1].mkvmerge_id # id
    ELSE NoIndex

\* next((track for track in tracks if track.mkvmerge_id == id), None)
TrackOfId(tracks, id) ==
    LET i == IndexOfId(tracks, id)
    IN IF i = NoIndex THEN NoTrack ELSE tracks[i + 1]

-----------------------------------------------------------------------------
(* Calls of the engine functions on bounded inputs *)

\* the track list and the rules of the kind under test
Tracks == IF kind = "audio" THEN audio_tracks ELSE subtitle_tracks
KeepSet == IF kind = "audio" THEN config.keep_languages ELSE config.keep_subtitle_languages
RemoveSet == IF kind = "audio" THEN config.remove_languages
             ELSE config.remove_subtitle_languages
DefaultLanguage == IF kind = "audio" THEN config.default_audio_language
                   ELSE config.default_subtitle_language

history_vars == <<user_input, prev_remove, prev_default, repeated, before_repeat>>
session_vars == <<tracks_to_remove, current_default, history_vars>>
audio_vars == <<selected_audio_tracks, default_audio_track, default_audio_index>>
subtitle_vars == <<selected_subtitle_tracks, default_subtitle_track, default_subtitle_index>>
file_vars == <<audio_vars, subtitle_vars, result>>
input_vars == <<config, audio_tracks, subtitle_tracks, non_interactive, kind>>
engine_vars == <<removal_out, kept_out, reapply_out, default_out, rules_out>>
args_vars == <<filenames, output_given, config_arg, config_file, config_content>>
process_vars == <<replace_original_file, create_backup, remux, output_written,
                  output_exists, backup_exists, backups, backup_file, original_replaced,
                  process_result>>
main_vars == <<args_vars, valid_files, file_index, file_selections, analysis_failed,
               success_count, processing_failed, attempted, cancelled_files, process_vars>>
batch_vars == <<main_vars, session_end, exit_code>>

IdleSession ==
    /\ tracks_to_remove = {}
    /\ current_default = NoIndex
    /\ user_input = NoLine
    /\ prev_remove = {}
    /\ prev_default = NoIndex
    /\ repeated = FALSE
    /\ before_repeat = {}

IdleFile ==
    /\ selected_audio_tracks = <<>>
    /\ default_audio_track = NoTrack
    /\ default_audio_index = NoIndex
    /\ selected_subtitle_tracks = <<>>
    /\ default_subtitle_track = NoTrack
    /\ default_subtitle_index = NoIndex
    /\ result = NoResult

IdleEngine ==
    /\ removal_out = {}
    /\ kept_out = <<>>
    /\ reapply_out = {}
    /\ default_out = NoTrack
    /\ rules_out = FALSE

\* process_file_with_selection has not been called
IdleProcess ==
    /\ replace_original_file = TRUE
    /\ create_backup = TRUE
    /\ remux = "none"
    /\ output_written = FALSE
    /\ output_exists = FALSE
    /\ backup_exists = FALSE
    /\ backups = {}
    /\ backup_file = NoIndex
    /\ original_replaced = FALSE
    /\ process_result = "<None>"

\* main has validated its arguments and reads no further file
IdleMain ==
    /\ IdleProcess
    /\ valid_files = <<1>>
    /\ file_index = 1
    /\ file_selections = <<>>
    /\ analysis_failed = <<>>
    /\ success_count = 0
    /\ processing_failed = <<>>
    /\ attempted = <<>>
    /\ cancelled_files = {}
    /\ session_end = "none"
    /\ exit_code = NoCode

\* one file is given, and the configuration of the run is already loaded
OneFile ==
    /\ filenames = <<[exists |-> TRUE, audio |-> <<>>, subtitles |-> <<>>]>>
    /\ output_given = FALSE
    /\ config_arg = FALSE
    /\ config_file = "ok"
    /\ config_content = NoConfig
    /\ IdleMain

EngineInit ==
    /\ kind \in {"audio", "subtitle"}
    /\ non_interactive = TRUE
    /\ \E langs \in SeqsUpTo(TrackLanguages, MaxTracks),
          keep \in SUBSET ConfigLanguages, remove \in SUBSET ConfigLanguages,
          dflt \in ConfigLanguages \cup {None} :
          /\ audio_tracks = IF kind = "audio" THEN MakeTracks(langs, 1) ELSE <<>>
          /\ subtitle_tracks = IF kind = "subtitle" THEN MakeTracks(langs, 1) ELSE <<>>
          /\ config = IF kind = "audio"
                      THEN MakeConfig(keep, remove, {}, {}, dflt, None)
                      ELSE MakeConfig({}, {}, keep, remove, None, dflt)
    /\ pc = "engine"
    /\ IdleSession
    /\ IdleFile
    /\ IdleEngine
    /\ OneFile

\* config.apply_defaults(tracks)
CallApplyDefaults ==
    /\ pc = "engine"
    /\ kind = "audio"
    /\ removal_out' = apply_defaults(config, audio_tracks)
    /\ pc' = "applied"
    /\ UNCHANGED <<batch_vars, input_vars, session_vars, file_vars, rules_out, kept_out, reapply_out, default_out>>

\* config.apply_subtitle_defaults(tracks)
CallApplySubtitleDefaults ==
    /\ pc = "engine"
    /\ kind = "subtitle"
    /\ removal_out' = apply_subtitle_defaults(config, subtitle_tracks)
    /\ pc' = "applied"
    /\ UNCHANGED <<batch_vars, input_vars, session_vars, file_vars, rules_out, kept_out, reapply_out, default_out>>

\* select_tracks_non_interactive(tracks, config)
CallSelectNonInteractive ==
    /\ pc = "applied"
    /\ kind = "audio"
    /\ kept_out' = select_tracks_non_interactive(audio_tracks, config)
    /\ pc' = "selected"
    /\ UNCHANGED <<batch_vars, input_vars, session_vars, file_vars, rules_out, removal_out, reapply_out, default_out>>

\* select_subtitle_tracks_non_interactive(tracks, config)
CallSelectSubtitleNonInteractive ==
    /\ pc = "applied"
    /\ kind = "subtitle"
    /\ kept_out' = select_subtitle_tracks_non_interactive(subtitle_tracks, config)
    /\ pc' = "selected"
    /\ UNCHANGED <<batch_vars, input_vars, session_vars, file_vars, rules_out, removal_out, reapply_out, default_out>>

\* config.apply_defaults / apply_subtitle_defaults on the kept output, same rules
CallReapply ==
    /\ pc = "selected"
    /\ reapply_out' = IF kind = "audio" THEN apply_defaults(config, kept_out)
                      ELSE apply_subtitle_defaults(config, kept_out)
    /\ pc' = "reapplied"
    /\ UNCHANGED <<batch_vars, input_vars, session_vars, file_vars, rules_out, removal_out, kept_out, default_out>>

\* config.find_default_audio_track(tracks)
CallFindDefaultAudio ==
    /\ pc = "engine"
    /\ kind = "audio"
    /\ default_out' = find_default_audio_track(config, audio_tracks)
    /\ pc' = "found"
    /\ UNCHANGED <<batch_vars, input_vars, session_vars, file_vars, rules_out, removal_out, kept_out, reapply_out>>

\* config.find_default_subtitle_track(tracks)
CallFindDefaultSubtitle ==
    /\ pc = "engine"
    /\ kind = "subtitle"
    /\ default_out' = find_default_subtitle_track(config, subtitle_tracks)
    /\ pc' = "found"
    /\ UNCHANGED <<batch_vars, input_vars, session_vars, file_vars, rules_out, removal_out, kept_out, reapply_out>>

\* config.has_rules()
CallHasRules ==
    /\ pc = "engine"
    /\ rules_out' = has_rules(config)
    /\ pc' = "ruled"
    /\ UNCHANGED <<batch_vars, input_vars, session_vars, file_vars, removal_out, kept_out,
                   reapply_out, default_out>>

EngineNext ==
    \/ CallHasRules
    \/ CallApplyDefaults
    \/ CallApplySubtitleDefaults
    \/ CallSelectNonInteractive
    \/ CallSelectSubtitleNonInteractive
    \/ CallReapply
    \/ CallFindDefaultAudio
    \/ CallFindDefaultSubtitle

SpecEngine == EngineInit /\ [][EngineNext]_vars

-----------------------------------------------------------------------------
(* Claims about the engine functions, checked under SpecEngine *)

\* the language the rules see: lowercased, "unknown" when absent
LangOf(track) == IF track.language = None THEN "unknown" ELSE Lower(track.language)
LangAt(i) == LangOf(Tracks[i + 1])

\* the indices the rules (keep, remove) exclude from a track list
ExpectedRemovalOf(tracks, keep, remove) ==
    {i \in 0..(Len(tracks) - 1) :
        \/ keep # {} /\ LangOf(tracks[i + 1]) \notin keep
        \/ remove # {} /\ LangOf(tracks[i + 1]) \in remove}

ExpectedRemoval == ExpectedRemovalOf(Tracks, KeepSet, RemoveSet)

\* C1: apply_defaults and apply_subtitle_defaults return exactly the indices i
\* with (keep_set non-empty and lang(i) not in keep_set) or (remove_set
\* non-empty and lang(i) in remove_set); with both sets empty the result is
\* the empty set.
C1_ApplyDefaultsExact ==
    pc = "applied" =>
        /\ removal_out = ExpectedRemoval
        /\ (KeepSet = {} /\ RemoveSet = {} => removal_out = {})

\* both rules are set, an absent language is matched as "unknown" and an
\* uppercase tag is matched through its lowercase form
C1_Witness ==
    /\ pc = "applied"
    /\ KeepSet = {"eng", "unknown"}
    /\ RemoveSet = {"unknown"}
    /\ Len(Tracks) = 3
    /\ Tracks[1].language = "ENG"
    /\ Tracks[2].language = None
    /\ Tracks[3].language = "jpn"
    /\ removal_out = {1, 2}

\* C3: apply_defaults is idempotent: applied with the same rules to the kept
\* output of a first application it returns the empty removal set.
C3_ApplyDefaultsIdempotent ==
    pc = "reapplied" => reapply_out = {}

\* a first application that removed a track and kept another, then re-applied
C3_Witness ==
    /\ pc = "reapplied"
    /\ removal_out # {}
    /\ kept_out # <<>>
    /\ Len(kept_out) < Len(Tracks)
    /\ KeepSet # {}
    /\ RemoveSet # {}
    /\ reapply_out = {}

\* positions of the tracks whose normalized language is the default language
MatchingPositions ==
    {k \in 1..Len(Tracks) : DefaultLanguage # None /\ LangAt(k - 1) = DefaultLanguage}

\* C4: find_default_audio_track / find_default_subtitle_track return the
\* track with the smallest list position whose normalized language equals the
\* configured default language, and none when no default language is
\* configured or no track matches.
C4_FindDefaultIsEarliest ==
    pc = "found" =>
        IF MatchingPositions = {}
        THEN default_out = NoTrack
        ELSE \E k \in MatchingPositions :
                /\ \A j \in MatchingPositions : k <= j
                /\ default_out = Tracks[k]

\* several tracks share the default language, the first one does not, and the
\* earliest of the matching ones is returned
C4_Witness ==
    /\ pc = "found"
    /\ Cardinality(MatchingPositions) >= 2
    /\ 1 \notin MatchingPositions
    /\ default_out = Tracks[2]
    /\ default_out.mkvmerge_id = 2

\* how many languages the four sets of the configuration name
RuleLanguages ==
    Cardinality(config.keep_languages) + Cardinality(config.remove_languages)
        + Cardinality(config.keep_subtitle_languages)
        + Cardinality(config.remove_subtitle_languages)

\* C24: has_rules() is true exactly when one of the four language sets is not
\* empty; a configuration that sets only a default language has no rules.
C24_HasRulesIsAnySet ==
    pc = "ruled" =>
        /\ rules_out <=> RuleLanguages > 0
        /\ RuleLanguages = 0 /\ (config.default_audio_language # None
                                  \/ config.default_subtitle_language # None)
              => ~rules_out

\* has_rules() on a configuration that sets a default language and no set
C24_Witness ==
    /\ pc = "ruled"
    /\ RuleLanguages = 0
    /\ config.default_subtitle_language # None
    /\ rules_out = FALSE

-----------------------------------------------------------------------------
(* Lines typed at the prompt *)

DigitChar(k) ==
    CASE k = 0 -> "0" [] k = 1 -> "1" [] k = 2 -> "2" [] k = 3 -> "3" [] k = 4 -> "4"
      [] k = 5 -> "5" [] k = 6 -> "6" [] k = 7 -> "7" [] k = 8 -> "8" [] k = 9 -> "9"

NumTok(k) == <<DigitChar(k)>>
RangeTok(a, b) == <<DigitChar(a), "-", DigitChar(b)>>
Join2(t, u) == t \o <<" ">> \o u

KeywordLines ==
    {<<"q">>, <<"q", "u", "i", "t">>, <<" ", "Q", " ">>,
     <<"n">>, <<"n", "e", "x", "t">>, <<"N", "e", "x", "t">>,
     <<"c">>, <<"c", "l", "e", "a", "r">>,
     <<>>, <<" ", " ">>}

DefaultLines(n) ==
    {<<"d">> \o NumTok(k) : k \in 0..(n + 1)}
        \cup {<<"d">>, <<"d", " ", "2">>, <<"D", "1">>, <<"d", "x">>, <<"d", "-", "1">>}

\* single tokens: every number and every range with bounds around 1 and n
RangeBounds(n) == {0, 1, 2, n, n + 1}

SelectionTokens(n) ==
    {NumTok(k) : k \in 0..(n + 1)}
        \cup {RangeTok(a, b) : a \in RangeBounds(n), b \in RangeBounds(n)}
        \cup {<<"x">>, <<"-", "1">>, <<"1", "-">>, <<"1", "-", "-", "2">>}

\* lines of two tokens: valid and invalid ones in both orders, repeated indices
FirstTokens(n) == {NumTok(1), NumTok(2), <<"x">>, RangeTok(1, 2), RangeTok(n - 1, n)}
SecondTokens(n) == FirstTokens(n) \cup {NumTok(n + 1), RangeTok(2, 1)}

SelectionLines(n) ==
    SelectionTokens(n)
        \cup {Join2(t, u) : t \in FirstTokens(n), u \in SecondTokens(n)}
        \cup {<<" ", "1", " ", " ", "2", " ">>}

\* the lines a user may type in a session on its own
SessionInputs ==
    KeywordLines \cup DefaultLines(MaxSessionTracks) \cup SelectionLines(MaxSessionTracks)

\* the lines a user may type in a session of the per-file analysis
FileInputs ==
    {<<"q">>, <<"n">>, <<"c">>, <<>>, <<"x">>, RangeTok(1, MaxFileTracks)}
        \cup {NumTok(k) : k \in 1..MaxFileTracks}
        \cup {<<"d">> \o NumTok(k) : k \in 1..MaxFileTracks}

\* track languages by position: eng, jpn, eng, ...
AlternatingLangs(n) == [k \in 1..n |-> IF k % 2 = 1 THEN "eng" ELSE "jpn"]

\* configurations of the interactive runs
InteractiveConfigs ==
    {NoConfig,
     MakeConfig({"eng"}, {}, {}, {"jpn"}, "jpn", "eng"),
     MakeConfig({}, {"eng"}, {"jpn"}, {}, "jpn", "eng")}

\* every line of the model, and the longest track list of a session
AllInputs == SessionInputs \cup FileInputs
MaxLength == IF MaxSessionTracks > MaxFileTracks THEN MaxSessionTracks ELSE MaxFileTracks

-----------------------------------------------------------------------------
(* interactive.py: the interactive session (select_tracks_to_keep for audio, *)
(* select_subtitle_tracks_to_keep for subtitles), and main.py: the code of   *)
(* analyze_and_select_tracks around it                                       *)

InitialRemoveIgnored == {}

\* tracks_to_remove after the configuration was applied at the start of a session
InitialRemove ==
    IF kind' = "audio"
    THEN (IF ~config.is_none /\ has_rules(config)
          THEN apply_defaults(config, audio_tracks) ELSE {})
    ELSE (IF ~config.is_none /\ (config.keep_subtitle_languages # {}
                                 \/ config.remove_subtitle_languages # {})
          THEN apply_subtitle_defaults(config, subtitle_tracks) ELSE {})

\* current_default after the configured default language was looked up
InitialDefault ==
    IF kind' = "audio"
    THEN (IF ~config.is_none /\ config.default_audio_language # None
          THEN LET default_track == find_default_audio_track(config, audio_tracks)
               IN IF default_track # NoTrack
                  THEN IndexOfId(audio_tracks, default_track.mkvmerge_id)
                  ELSE NoIndex
          ELSE NoIndex)
    ELSE (IF ~config.is_none /\ config.default_subtitle_language # None
          THEN LET default_track == find_default_subtitle_track(config, subtitle_tracks)
               IN IF default_track # NoTrack
                  THEN IndexOfId(subtitle_tracks, default_track.mkvmerge_id)
                  ELSE NoIndex
          ELSE NoIndex)

StartSessionCarried ==
    /\ tracks_to_remove' = tracks_to_remove \cup InitialRemove
    /\ current_default' = IF current_default # NoIndex THEN current_default
                           ELSE InitialDefault
    /\ user_input' = NoLine
    /\ prev_remove' = tracks_to_remove \cup InitialRemove
    /\ prev_default' = IF current_default # NoIndex THEN current_default
                        ELSE InitialDefault
    /\ repeated' = FALSE
    /\ before_repeat' = {}
    /\ pc' = "browsing"

\* the state of a session when its first prompt is shown
StartSession ==
    /\ tracks_to_remove' = InitialRemove
    /\ current_default' = InitialDefault
    /\ user_input' = NoLine
    /\ prev_remove' = InitialRemove
    /\ prev_default' = InitialDefault
    /\ repeated' = FALSE
    /\ before_repeat' = {}
    /\ pc' = "browsing"

SkippedKeepingSubtitles ==
    MakeResult("no_selection", audio_tracks, NoList, subtitle_tracks, subtitle_tracks,
               NoTrack, NoTrack)

SkippedNoSelection ==
    MakeResult("no_selection", audio_tracks, NoList, subtitle_tracks, NoList,
               NoTrack, NoTrack)

\* the default track looked up by id among the selected tracks
\* (main.py, after the interactive selection returned default_index)
ResolveDefault(tracks, selected, default_index) ==
    IF default_index # NoIndex /\ default_index < Len(tracks)
    THEN TrackOfId(selected, tracks[default_index + 1].mkvmerge_id)
    ELSE NoTrack

AudioReturnNoSkip(keep, default_index) ==
    /\ selected_audio_tracks' = keep
    /\ default_audio_index' = default_index
    /\ default_audio_track' = ResolveDefault(audio_tracks, keep, default_index)
    /\ result' = result
    /\ pc' = "subtitle"
    /\ UNCHANGED subtitle_vars

\* select_tracks_to_keep returns (keep, default_index) to analyze_and_select_tracks,
\* which resolves the default track and skips the file when nothing is selected
AudioReturn(keep, default_index) ==
    /\ selected_audio_tracks' = keep
    /\ default_audio_index' = default_index
    /\ default_audio_track' = ResolveDefault(audio_tracks, keep, default_index)
    /\ IF keep = <<>>
       THEN /\ result' = SkippedNoSelection
            /\ pc' = "done"
       ELSE /\ result' = result
            /\ pc' = "subtitle"
    /\ UNCHANGED subtitle_vars

\* select_subtitle_tracks_to_keep returns (keep, default_index)
SubtitleReturn(keep, default_index) ==
    /\ selected_subtitle_tracks' = keep
    /\ default_subtitle_index' = default_index
    /\ default_subtitle_track' = ResolveDefault(subtitle_tracks, keep, default_index)
    /\ pc' = "finalize"
    /\ UNCHANGED <<audio_vars, result>>

SessionReturn(keep, default_index) ==
    IF kind = "audio" THEN AudioReturn(keep, default_index)
    ELSE SubtitleReturn(keep, default_index)

UnvalidatedDefault == current_default

\* current_default after "Validate default track is in tracks to keep"
ValidatedDefault ==
    IF current_default # NoIndex /\ current_default \in tracks_to_remove
    THEN NoIndex ELSE current_default

\* user_input = input("Selection: ").strip().lower()
ReadLine(raw) == LowerLine(Strip(raw))

\* every line read is recorded, with the session state it was read in
Record(line) ==
    /\ user_input' = line
    /\ prev_remove' = tracks_to_remove
    /\ prev_default' = current_default
    /\ repeated' = (line = user_input)
    /\ before_repeat' = IF line = user_input THEN prev_remove ELSE {}

QuitWords == {<<"q">>, <<"q", "u", "i", "t">>}
NextWords == {<<"n">>, <<"n", "e", "x", "t">>}
ClearWordsLong == {<<"c">>, <<"c", "l", "e", "a", "r">>}
ClearWords == {<<"c">>}

\* one pass of the loop body up to the branch that handles the line read:
\* the tests are made in the order of the code
Dispatch(raw, max_tracks) ==
    LET line == ReadLine(raw)
        default_idx == _parse_default_track_selection(line, max_tracks)
        branch == IF line \in QuitWords THEN "quit"
                  ELSE IF line \in NextWords THEN "next"
                  ELSE IF line \in ClearWords THEN "clear"
                  ELSE IF line = <<>> THEN "empty"
                  ELSE IF default_idx # NoIndex THEN "default"
                  ELSE "selection"
    IN [line |-> line,
        branch |-> branch,
        default_idx |-> default_idx,
        parsed |-> IF branch = "selection"
                   THEN _parse_track_selection(Split(line), max_tracks)
                   ELSE ParseFailed]

\* Dispatch, evaluated once for every line of the model and every track count
Dispatched ==
    [max_tracks \in 0..MaxLength |-> [raw \in AllInputs |-> Dispatch(raw, max_tracks)]]

Command(raw) == Dispatched[Len(Tracks)][raw]

\* "q" / "quit": UserCancelledError leaves the session and analyze_and_select_tracks
Quit(inputs) ==
    /\ pc = "browsing"
    /\ \E raw \in inputs :
          /\ Command(raw).branch = "quit"
          /\ Record(Command(raw).line)
    /\ pc' = "cancelled"
    /\ session_end' = "cancelled"
    /\ UNCHANGED <<main_vars, exit_code, input_vars, tracks_to_remove, current_default,
                   file_vars, engine_vars>>

NeedsConfirmationNever(keep) == FALSE

\* "if not tracks_to_keep:" before the confirmation prompt, which only
\* select_tracks_to_keep has
NeedsConfirmation(keep) == kind = "audio" /\ keep = <<>>

\* "n" / "next": leave the loop; an audio session that would keep nothing asks
\* for confirmation, any other session returns its selection
NextCommand(inputs) ==
    /\ pc = "browsing"
    /\ \E raw \in inputs :
          /\ Command(raw).branch = "next"
          /\ Record(Command(raw).line)
    /\ LET keep == KeepTracks(Tracks, tracks_to_remove, 0)
       IN IF NeedsConfirmation(keep)
          THEN /\ pc' = "confirm"
               /\ UNCHANGED <<current_default, file_vars, session_end>>
          ELSE /\ current_default' = ValidatedDefault
               /\ SessionReturn(keep, ValidatedDefault)
               /\ session_end' = "confirmed"
    /\ UNCHANGED <<main_vars, exit_code, input_vars, tracks_to_remove, engine_vars>>

ClearRulesToo(inputs) ==
    /\ pc = "browsing"
    /\ \E raw \in inputs :
          /\ Command(raw).branch = "clear"
          /\ Record(Command(raw).line)
    /\ tracks_to_remove' = {}
    /\ current_default' = NoIndex
    /\ config' = IF config.is_none THEN config
                 ELSE [config EXCEPT !.keep_languages = {}, !.remove_languages = {},
                                     !.keep_subtitle_languages = {},
                                     !.remove_subtitle_languages = {}]
    /\ UNCHANGED <<batch_vars, audio_tracks, subtitle_tracks, non_interactive, kind, pc,
                   file_vars, engine_vars>>

\* "c": clear all selections and the default
Clear(inputs) ==
    /\ pc = "browsing"
    /\ \E raw \in inputs :
          /\ Command(raw).branch = "clear"
          /\ Record(Command(raw).line)
    /\ tracks_to_remove' = {}
    /\ current_default' = NoIndex
    /\ UNCHANGED <<batch_vars, input_vars, pc, file_vars, engine_vars>>

EmptyInputClears(inputs) ==
    /\ pc = "browsing"
    /\ \E raw \in inputs :
          /\ Command(raw).branch = "empty"
          /\ Record(Command(raw).line)
    /\ tracks_to_remove' = {}
    /\ current_default' = NoIndex
    /\ UNCHANGED <<batch_vars, input_vars, pc, file_vars, engine_vars>>

\* an empty line: prompt again
EmptyInput(inputs) ==
    /\ pc = "browsing"
    /\ \E raw \in inputs :
          /\ Command(raw).branch = "empty"
          /\ Record(Command(raw).line)
    /\ UNCHANGED <<batch_vars, input_vars, pc, tracks_to_remove, current_default, file_vars, engine_vars>>

\* "dN": make track N the default unless it is marked for removal
DefaultCommand(inputs) ==
    /\ pc = "browsing"
    /\ \E raw \in inputs :
          LET cmd == Command(raw)
          IN /\ cmd.branch = "default"
             /\ Record(cmd.line)
             /\ current_default' = IF cmd.default_idx \in tracks_to_remove
                                   THEN current_default ELSE cmd.default_idx
    /\ UNCHANGED <<batch_vars, input_vars, pc, tracks_to_remove, file_vars, engine_vars>>

\* track numbers and ranges: toggle every parsed index, or nothing when the
\* parse fails
SelectionCommand(inputs) ==
    /\ pc = "browsing"
    /\ \E raw \in inputs :
          LET cmd == Command(raw)
              toggled == ToggleAll(cmd.parsed.indices, 1, tracks_to_remove, current_default)
          IN /\ cmd.branch = "selection"
             /\ Record(cmd.line)
             /\ IF cmd.parsed.success /\ cmd.parsed.indices # <<>>
                THEN /\ tracks_to_remove' = toggled.remove
                     /\ current_default' = toggled.default
                ELSE UNCHANGED <<tracks_to_remove, current_default>>
    /\ UNCHANGED <<batch_vars, input_vars, pc, file_vars, engine_vars>>

\* KeyboardInterrupt / EOFError at the selection prompt: return [], None
Interrupt ==
    /\ pc = "browsing"
    /\ SessionReturn(<<>>, NoIndex)
    /\ session_end' = "cancelled"
    /\ UNCHANGED <<main_vars, exit_code, input_vars, session_vars, engine_vars>>

\* answers to "Are you sure you want to continue? (y/N)"
ConfirmAnswers == {<<"y">>, <<"y", "e", "s">>, <<" ", "y">>, <<"n">>, <<>>}
YesWords == {<<"y">>, <<"y", "e", "s">>}

\* the user confirms that no audio track is kept: the session returns the
\* empty selection
ConfirmYes ==
    /\ pc = "confirm"
    /\ \E raw \in ConfirmAnswers : ReadLine(raw) \in YesWords
    /\ current_default' = ValidatedDefault
    /\ AudioReturn(<<>>, ValidatedDefault)
    /\ session_end' = "confirmed"
    /\ UNCHANGED <<main_vars, exit_code, input_vars, tracks_to_remove, history_vars,
                   engine_vars>>

\* any other answer: "Operation cancelled.", return [], None
ConfirmNo ==
    /\ pc = "confirm"
    /\ \E raw \in ConfirmAnswers : ReadLine(raw) \notin YesWords
    /\ AudioReturn(<<>>, NoIndex)
    /\ session_end' = "cancelled"
    /\ UNCHANGED <<main_vars, exit_code, input_vars, session_vars, engine_vars>>

\* the file the Phase 1 loop of main is at
CurrentFile == valid_files[file_index]

\* EOFError at the confirmation prompt, which is outside the try block of the
\* session: it leaves select_tracks_to_keep and is caught by the
\* "except Exception" of analyze_and_select_tracks, which returns FAILED
ConfirmEndOfInput ==
    /\ pc = "confirm"
    /\ result' = MakeResult("failed", NoList, NoList, NoList, NoList, NoTrack, NoTrack)
    /\ pc' = "done"
    /\ session_end' = "cancelled"
    /\ UNCHANGED <<main_vars, exit_code, input_vars, session_vars, audio_vars,
                   subtitle_vars, engine_vars>>

\* KeyboardInterrupt at the confirmation prompt: no handler below main catches
\* it, and main returns 1
ConfirmInterrupted ==
    /\ pc = "confirm"
    /\ pc' = "exit"
    /\ exit_code' = 1
    /\ session_end' = "cancelled"
    /\ cancelled_files' = cancelled_files \cup {CurrentFile}
    /\ UNCHANGED <<args_vars, process_vars, valid_files, file_index, file_selections, analysis_failed,
                   success_count, processing_failed, attempted,
                   input_vars, session_vars, file_vars, engine_vars>>

\* select_tracks_to_keep(audio_tracks, config) is entered
AudioSessionStart ==
    /\ pc = "audio"
    /\ audio_tracks # <<>>
    /\ ~non_interactive
    /\ kind' = "audio"
    /\ StartSession
    /\ UNCHANGED <<batch_vars, config, audio_tracks, subtitle_tracks, non_interactive, file_vars,
                   engine_vars>>

\* select_subtitle_tracks_to_keep(subtitle_tracks, config) is entered
SubtitleSessionStart ==
    /\ pc = "subtitle"
    /\ subtitle_tracks # <<>>
    /\ ~non_interactive
    /\ kind' = "subtitle"
    /\ StartSession
    /\ UNCHANGED <<batch_vars, config, audio_tracks, subtitle_tracks, non_interactive, file_vars,
                   engine_vars>>

-----------------------------------------------------------------------------
(* One interactive session of either kind *)

SessionInit ==
    /\ kind \in {"audio", "subtitle"}
    /\ non_interactive = FALSE
    /\ config \in InteractiveConfigs
    /\ \E n \in 1..MaxSessionTracks :
          /\ audio_tracks = IF kind = "audio" THEN MakeTracks(AlternatingLangs(n), 1)
                            ELSE <<>>
          /\ subtitle_tracks = IF kind = "subtitle" THEN MakeTracks(AlternatingLangs(n), 1)
                               ELSE <<>>
    /\ pc = kind
    /\ IdleSession
    /\ IdleFile
    /\ IdleEngine
    /\ OneFile

SessionNext ==
    \/ AudioSessionStart
    \/ SubtitleSessionStart
    \/ Quit(SessionInputs)
    \/ NextCommand(SessionInputs)
    \/ Clear(SessionInputs)
    \/ EmptyInput(SessionInputs)
    \/ DefaultCommand(SessionInputs)
    \/ SelectionCommand(SessionInputs)
    \/ Interrupt
    \/ ConfirmYes
    \/ ConfirmNo
    \/ ConfirmEndOfInput
    \/ ConfirmInterrupted

SpecSession == SessionInit /\ [][SessionNext]_vars

-----------------------------------------------------------------------------
(* main.py: the analysis of one file, analyze_and_select_tracks, as main calls it *)

RulesNeverRequired(quiet, cfg) == FALSE

\* "if args.non_interactive: if config is None or not config.has_rules()"
RulesRequired(quiet, cfg) == quiet /\ (cfg.is_none \/ ~has_rules(cfg))

\* "Validate non-interactive mode requirements": without rules main returns 1
\* before any file is analysed
CheckNonInteractive ==
    /\ pc = "main"
    /\ IF RulesRequired(non_interactive, config)
       THEN /\ pc' = "exit"
            /\ exit_code' = 1
       ELSE /\ pc' = "analyze"
            /\ exit_code' = exit_code
    /\ UNCHANGED <<main_vars, session_end, input_vars, session_vars, file_vars, engine_vars>>

\* the track lists were read; a file without audio and subtitle tracks is skipped
AnalyzeDiscover ==
    /\ pc = "analyze"
    /\ IF audio_tracks = <<>> /\ subtitle_tracks = <<>>
       THEN /\ result' = MakeResult("no_tracks", NoList, NoList, NoList, NoList,
                                    NoTrack, NoTrack)
            /\ pc' = "done"
       ELSE /\ result' = result
            /\ pc' = "audio"
    /\ UNCHANGED <<batch_vars, input_vars, session_vars, audio_vars, subtitle_vars, engine_vars>>

\* get_audio_tracks raises (mkvinfo is missing or fails): the analysis has failed
DiscoveryFails ==
    /\ pc = "analyze"
    /\ result' = MakeResult("failed", NoList, NoList, NoList, NoList, NoTrack, NoTrack)
    /\ pc' = "done"
    /\ UNCHANGED <<batch_vars, input_vars, session_vars, audio_vars, subtitle_vars, engine_vars>>

\* "if audio_tracks:" is false
AudioSkipNone ==
    /\ pc = "audio"
    /\ audio_tracks = <<>>
    /\ pc' = "subtitle"
    /\ UNCHANGED <<batch_vars, input_vars, session_vars, file_vars, engine_vars>>

\* the default track of the non-interactive audio selection
NonInteractiveAudioDefaultOriginal(cfg, tracks, selected) ==
    IF cfg.is_none THEN NoTrack ELSE find_default_audio_track(cfg, tracks)

NonInteractiveAudioDefault(cfg, tracks, selected) ==
    IF cfg.is_none THEN NoTrack ELSE find_default_audio_track(cfg, selected)

\* the default track of the non-interactive subtitle selection
NonInteractiveSubtitleDefault(cfg, tracks, selected) ==
    IF cfg.is_none THEN NoTrack ELSE find_default_subtitle_track(cfg, selected)

\* audio selection by the configuration rules alone
AudioNonInteractive ==
    /\ pc = "audio"
    /\ audio_tracks # <<>>
    /\ non_interactive
    /\ IF config.is_none \/ ~has_rules(config)
       THEN /\ result' = SkippedNoSelection
            /\ pc' = "done"
            /\ UNCHANGED audio_vars
       ELSE LET selected == select_tracks_non_interactive(audio_tracks, config)
                default_track == NonInteractiveAudioDefault(config, audio_tracks, selected)
            IN /\ selected_audio_tracks' = selected
               /\ default_audio_track' = default_track
               /\ default_audio_index' =
                      IF default_track # NoTrack
                      THEN IndexOfId(selected, default_track.mkvmerge_id)
                      ELSE NoIndex
               /\ IF selected = <<>>
                  THEN /\ result' = SkippedNoSelection
                       /\ pc' = "done"
                  ELSE /\ result' = result
                       /\ pc' = "subtitle"
    /\ UNCHANGED <<batch_vars, input_vars, session_vars, subtitle_vars, engine_vars>>

\* "if subtitle_tracks:" is false
SubtitleSkipNone ==
    /\ pc = "subtitle"
    /\ subtitle_tracks = <<>>
    /\ pc' = "finalize"
    /\ UNCHANGED <<batch_vars, input_vars, session_vars, file_vars, engine_vars>>

\* subtitle selection by the configuration rules alone
SubtitleNonInteractive ==
    /\ pc = "subtitle"
    /\ subtitle_tracks # <<>>
    /\ non_interactive
    /\ LET selected == IF config.is_none \/ ~has_rules(config)
                       THEN subtitle_tracks
                       ELSE select_subtitle_tracks_non_interactive(subtitle_tracks, config)
           default_track == NonInteractiveSubtitleDefault(config, subtitle_tracks, selected)
       IN /\ selected_subtitle_tracks' = selected
          /\ default_subtitle_track' = default_track
          /\ default_subtitle_index' =
                 IF default_track # NoTrack
                 THEN IndexOfId(selected, default_track.mkvmerge_id)
                 ELSE NoIndex
    /\ pc' = "finalize"
    /\ UNCHANGED <<batch_vars, input_vars, session_vars, audio_vars, result, engine_vars>>

\* "Check if all tracks are selected" and the FileAnalysisResult returned
Finalize ==
    /\ pc = "finalize"
    /\ LET audio_all_selected ==
               audio_tracks = <<>> \/ Len(selected_audio_tracks) = Len(audio_tracks)
           subtitle_all_selected ==
               subtitle_tracks = <<>>
                   \/ Len(selected_subtitle_tracks) = Len(subtitle_tracks)
       IN result' = MakeResult(
                        IF audio_all_selected /\ subtitle_all_selected
                        THEN "all_selected" ELSE "success",
                        audio_tracks, selected_audio_tracks,
                        subtitle_tracks, selected_subtitle_tracks,
                        default_audio_track, default_subtitle_track)
    /\ pc' = "done"
    /\ UNCHANGED <<batch_vars, input_vars, session_vars, audio_vars, subtitle_vars, engine_vars>>

\* language tags of the tracks of the non-interactive runs
FileTrackLanguages == {"eng", "ENG", "jpn"}
FileAudioLanguages == {"eng", "jpn"}

\* configurations of the non-interactive runs
NonInteractiveConfigs ==
    {NoConfig} \cup
    {MakeConfig(ka, ra, ks, rs, da, ds) :
        ka \in {{}, {"eng"}}, ra \in {{}, {"eng"}, {"jpn"}},
        ks \in {{}, {"eng"}}, rs \in {{}, {"jpn"}},
        da \in {None, "eng", "jpn"}, ds \in {None, "jpn"}}

Init ==
    /\ non_interactive \in BOOLEAN
    /\ IF non_interactive
       THEN /\ config \in NonInteractiveConfigs
            /\ \E a \in SeqsUpTo(FileAudioLanguages, MaxRuleTracks),
                  b \in SeqsUpTo(FileTrackLanguages, MaxFileTracks) :
                  /\ audio_tracks = MakeTracks(a, 1)
                  /\ subtitle_tracks = MakeTracks(b, 1 + Len(a))
       ELSE /\ config \in InteractiveConfigs
            /\ \E na \in 0..MaxFileTracks, ns \in 0..MaxFileTracks :
                  /\ audio_tracks = MakeTracks(AlternatingLangs(na), 1)
                  /\ subtitle_tracks = MakeTracks(AlternatingLangs(ns), 1 + na)
    /\ kind = "audio"
    /\ pc = "main"
    /\ IdleSession
    /\ IdleFile
    /\ IdleEngine
    /\ OneFile

Next ==
    \/ CheckNonInteractive
    \/ AnalyzeDiscover
    \/ DiscoveryFails
    \/ AudioSkipNone
    \/ AudioNonInteractive
    \/ AudioSessionStart
    \/ SubtitleSkipNone
    \/ SubtitleNonInteractive
    \/ SubtitleSessionStart
    \/ Quit(FileInputs)
    \/ NextCommand(FileInputs)
    \/ Clear(FileInputs)
    \/ EmptyInput(FileInputs)
    \/ DefaultCommand(FileInputs)
    \/ SelectionCommand(FileInputs)
    \/ Interrupt
    \/ ConfirmYes
    \/ ConfirmNo
    \/ ConfirmEndOfInput
    \/ ConfirmInterrupted
    \/ Finalize

Spec == Init /\ [][Next]_vars

-----------------------------------------------------------------------------
(* analyze_and_select_tracks(filename, config, non_interactive=True) called   *)
(* on its own, with any configuration: the test of main that ends a run       *)
(* without rules does not stand before it                                     *)

AnalyzeInit ==
    /\ non_interactive = TRUE
    /\ config \in NonInteractiveConfigs
    /\ \E a \in SeqsUpTo(FileAudioLanguages, MaxFileTracks),
          b \in SeqsUpTo(FileTrackLanguages, MaxFileTracks) :
          /\ audio_tracks = MakeTracks(a, 1)
          /\ subtitle_tracks = MakeTracks(b, 1 + Len(a))
    /\ kind = "audio"
    /\ pc = "analyze"
    /\ IdleSession
    /\ IdleFile
    /\ IdleEngine
    /\ OneFile

AnalyzeNext ==
    \/ AnalyzeDiscover
    \/ DiscoveryFails
    \/ AudioSkipNone
    \/ AudioNonInteractive
    \/ SubtitleSkipNone
    \/ SubtitleNonInteractive
    \/ Finalize

SpecAnalyze == AnalyzeInit /\ [][AnalyzeNext]_vars

-----------------------------------------------------------------------------
(* main.py: one run of main over the paths given on the command line *)

\* the numbers of the set in ascending order
RECURSIVE Ascending(_)
Ascending(S) ==
    IF S = {} THEN <<>>
    ELSE LET least == CHOOSE x \in S : \A y \in S : x <= y
         IN <<least>> \o Ascending(S \ {least})

EveryGivenFile(files) == Ascending(1..Len(files))

\* valid_files: the paths that exist and are files, in the order given
ExistingFiles(files) == Ascending({i \in 1..Len(files) : files[i].exists})

\* the track lists mkvinfo reports for a file
AudioTracksOf(file) == MakeTracks(file.audio, 1)
SubtitleTracksOf(file) == MakeTracks(file.subtitles, 1 + Len(file.audio))

\* main returns the code
Return(code) ==
    /\ pc' = "exit"
    /\ exit_code' = code

\* "Validate arguments" and "Validate that all files exist"
Validate ==
    /\ pc = "start"
    /\ IF output_given /\ Len(filenames) > 1
       THEN /\ Return(1)
            /\ UNCHANGED valid_files
       ELSE /\ valid_files' = ExistingFiles(filenames)
            /\ IF valid_files' = <<>>
               THEN Return(1)
               ELSE /\ pc' = "config"
                    /\ exit_code' = exit_code
    /\ UNCHANGED <<args_vars, process_vars, file_index, file_selections, analysis_failed, success_count,
                   processing_failed, attempted, cancelled_files, session_end,
                   input_vars, session_vars, file_vars, engine_vars>>

\* the explicit path is tested with exists() before it is loaded
ExplicitConfigMissingIgnored(explicit, file) == FALSE

ExplicitConfigMissing(explicit, file) == explicit /\ file = "missing"

\* LangFilterConfig.load_from_file as main calls it: an auto-detected file that
\* is missing leaves config None, and so does a file configparser cannot read
LoadedConfig(file, content) == IF file = "ok" THEN content ELSE NoConfig

\* "Load configuration"
LoadConfig ==
    /\ pc = "config"
    /\ IF ExplicitConfigMissing(config_arg, config_file)
       THEN /\ Return(1)
            /\ UNCHANGED config
       ELSE /\ config' = LoadedConfig(config_file, config_content)
            /\ pc' = "main"
            /\ exit_code' = exit_code
    /\ UNCHANGED <<main_vars, session_end, audio_tracks, subtitle_tracks, non_interactive,
                   kind, session_vars, file_vars, engine_vars>>

\* FileAnalysisResult.should_process
should_process(r) ==
    LET has_audio_to_process == r.status = "success" /\ r.selected_tracks # NoList
        has_subtitle_to_process ==
            /\ r.selected_subtitle_tracks # NoList
            /\ Len(r.selected_subtitle_tracks) > 0
    IN has_audio_to_process \/ has_subtitle_to_process

\* the tuple main appends to file_selections
Selection(file, r) ==
    [filename |-> file,
     selected_tracks |-> IF r.selected_tracks = NoList THEN <<>> ELSE r.selected_tracks,
     selected_subtitle_tracks |-> r.selected_subtitle_tracks,
     default_audio_track |-> r.default_audio_track,
     default_subtitle_track |-> r.default_subtitle_track]

\* the locals of the analysis and of its sessions go out of scope
ResetAnalysis ==
    /\ kind' = "audio"
    /\ tracks_to_remove' = {}
    /\ current_default' = NoIndex
    /\ user_input' = NoLine
    /\ prev_remove' = {}
    /\ prev_default' = NoIndex
    /\ repeated' = FALSE
    /\ before_repeat' = {}
    /\ selected_audio_tracks' = <<>>
    /\ default_audio_track' = NoTrack
    /\ default_audio_index' = NoIndex
    /\ selected_subtitle_tracks' = <<>>
    /\ default_subtitle_track' = NoTrack
    /\ default_subtitle_index' = NoIndex
    /\ result' = NoResult

\* the exit code when Phase 1 recorded no selection
NoSelectionsCode(failed) == IF failed = <<>> THEN 0 ELSE 1

AnalysisFailedNever(r) == FALSE

\* "elif result.status == TrackSelectionResult.FAILED"
AnalysisFailed(r) == ~should_process(r) /\ r.status = "failed"

PhaseOneDoneEarly(index, files) == TRUE

\* the Phase 1 loop has gone through every valid file
PhaseOneDone(index, files) == index >= Len(files)

\* the Phase 1 loop after analyze_and_select_tracks has returned: the outcome
\* is filed, and the loop goes to the next file or ends
RecordOutcome ==
    /\ pc = "done"
    /\ LET selections == IF should_process(result)
                         THEN Append(file_selections, Selection(CurrentFile, result))
                         ELSE file_selections
           failed == IF AnalysisFailed(result)
                     THEN Append(analysis_failed, CurrentFile)
                     ELSE analysis_failed
       IN /\ file_selections' = selections
          /\ analysis_failed' = failed
          /\ file_index' = file_index + 1
          /\ IF ~PhaseOneDone(file_index, valid_files)
             THEN /\ audio_tracks' = AudioTracksOf(filenames[valid_files[file_index + 1]])
                  /\ subtitle_tracks' =
                         SubtitleTracksOf(filenames[valid_files[file_index + 1]])
                  /\ pc' = "analyze"
                  /\ exit_code' = exit_code
             ELSE /\ UNCHANGED <<audio_tracks, subtitle_tracks>>
                  /\ IF selections = <<>>
                     THEN Return(NoSelectionsCode(failed))
                     ELSE /\ pc' = "phase2"
                          /\ exit_code' = exit_code
    /\ cancelled_files' = IF session_end = "cancelled"
                          THEN cancelled_files \cup {CurrentFile} ELSE cancelled_files
    /\ session_end' = "none"
    /\ ResetAnalysis
    /\ UNCHANGED <<args_vars, process_vars, valid_files, success_count, processing_failed, attempted,
                   config, non_interactive, engine_vars>>

CancelledSkipsFile ==
    /\ pc = "cancelled"
    /\ pc' = "done"
    /\ result' = SkippedNoSelection
    /\ UNCHANGED <<batch_vars, input_vars, session_vars, audio_vars, subtitle_vars,
                   engine_vars>>

\* "except UserCancelledError" in the Phase 1 loop: main returns 0
Cancelled ==
    /\ pc = "cancelled"
    /\ Return(0)
    /\ cancelled_files' = cancelled_files \cup {CurrentFile}
    /\ UNCHANGED <<args_vars, process_vars, valid_files, file_index, file_selections, analysis_failed,
                   success_count, processing_failed, attempted, session_end,
                   input_vars, session_vars, file_vars, engine_vars>>

\* the exit code of the final summary
FinalCode(successes, selections, failed) ==
    IF successes = Len(selections) /\ failed = <<>> THEN 0 ELSE 1

LastPassOrFailure(index, selections, success) == index = Len(selections) \/ ~success

\* the Phase 2 loop is at the last recorded selection
LastPass(index, selections, success) == index = Len(selections)

\* position in file_selections of the Phase 2 loop
ProcessIndex == success_count + Len(processing_failed) + 1

\* one pass of the Phase 2 loop.  process_file_with_selection returns True
\* when the remux and the replacement went through and False when either
\* raised, whatever the exception: a failing mkvmerge, or the call of
\* remove_unwanted_tracks itself, which is made with six arguments.  After
\* the last file main prints the summary and returns.
ProcessFile ==
    /\ pc = "phase2"
    /\ ProcessIndex <= Len(file_selections)
    /\ \E success \in BOOLEAN :
          /\ attempted' = Append(attempted, file_selections[ProcessIndex].filename)
          /\ success_count' = IF success THEN success_count + 1 ELSE success_count
          /\ processing_failed' =
                 IF success THEN processing_failed
                 ELSE Append(processing_failed, file_selections[ProcessIndex].filename)
          /\ IF LastPass(ProcessIndex, file_selections, success)
             THEN Return(FinalCode(success_count', file_selections, analysis_failed))
             ELSE /\ pc' = "phase2"
                  /\ exit_code' = exit_code
    /\ UNCHANGED <<args_vars, process_vars, valid_files, file_index, file_selections, analysis_failed,
                   cancelled_files, session_end,
                   input_vars, session_vars, file_vars, engine_vars>>

\* what a path of the command line may be: missing, a file without tracks, or
\* a file with the tracks listed
FileCatalogue ==
    {[exists |-> FALSE, audio |-> <<>>, subtitles |-> <<>>],
     [exists |-> TRUE, audio |-> <<>>, subtitles |-> <<>>],
     [exists |-> TRUE, audio |-> <<"jpn">>, subtitles |-> <<>>],
     [exists |-> TRUE, audio |-> <<"eng">>, subtitles |-> <<"jpn">>],
     [exists |-> TRUE, audio |-> <<>>, subtitles |-> <<"eng">>]}

\* what a well-formed configuration file may hold: no key at all, or rules
ConfigContents ==
    {MakeConfig({}, {}, {}, {}, None, None),
     MakeConfig({}, {"jpn"}, {}, {}, "eng", "jpn")}

\* the lines a user may type in a session of a batch run
BatchInputs == {<<"q">>, <<"n">>, <<"c">>, <<>>, <<"1">>, <<"d", "1">>}

BatchInit ==
    /\ filenames \in {files \in SeqsUpTo(FileCatalogue, MaxFiles) : files # <<>>}
    /\ output_given \in BOOLEAN
    /\ config_arg \in BOOLEAN
    /\ config_file \in {"missing", "malformed", "ok"}
    /\ config_content \in IF config_file = "ok" THEN ConfigContents ELSE {NoConfig}
    /\ non_interactive \in BOOLEAN
    /\ config = NoConfig
    /\ LET existing == ExistingFiles(filenames)
       IN IF existing = <<>>
          THEN audio_tracks = <<>> /\ subtitle_tracks = <<>>
          ELSE /\ audio_tracks = AudioTracksOf(filenames[existing[1]])
               /\ subtitle_tracks = SubtitleTracksOf(filenames[existing[1]])
    /\ kind = "audio"
    /\ pc = "start"
    /\ valid_files = <<>>
    /\ file_index = 1
    /\ file_selections = <<>>
    /\ analysis_failed = <<>>
    /\ success_count = 0
    /\ processing_failed = <<>>
    /\ attempted = <<>>
    /\ cancelled_files = {}
    /\ session_end = "none"
    /\ exit_code = NoCode
    /\ IdleProcess
    /\ IdleSession
    /\ IdleFile
    /\ IdleEngine

BatchNext ==
    \/ Validate
    \/ LoadConfig
    \/ CheckNonInteractive
    \/ AnalyzeDiscover
    \/ DiscoveryFails
    \/ AudioSkipNone
    \/ AudioNonInteractive
    \/ AudioSessionStart
    \/ SubtitleSkipNone
    \/ SubtitleNonInteractive
    \/ SubtitleSessionStart
    \/ Quit(BatchInputs)
    \/ NextCommand(BatchInputs)
    \/ Clear(BatchInputs)
    \/ EmptyInput(BatchInputs)
    \/ DefaultCommand(BatchInputs)
    \/ SelectionCommand(BatchInputs)
    \/ Interrupt
    \/ ConfirmYes
    \/ ConfirmNo
    \/ ConfirmEndOfInput
    \/ ConfirmInterrupted
    \/ Finalize
    \/ RecordOutcome
    \/ Cancelled
    \/ ProcessFile

SpecBatch == BatchInit /\ [][BatchNext]_vars

-----------------------------------------------------------------------------
(* main.py: process_file_with_selection, and processor.py: the remux step *)
(* remove_unwanted_tracks and replace_original, called on one selection   *)

\* how a call of remove_unwanted_tracks may end: it raises before mkvmerge
\* runs (no track to keep, mkvmerge not installed, or the call itself is
\* rejected), or mkvmerge runs and exits with a status
ToolOutcomes(tracks_to_keep) ==
    IF tracks_to_keep = <<>> THEN {"not_run"} ELSE {"not_run", "nonzero", "zero"}

OutputLeftAfterFailure(written) == written

\* "Clean up failed output file": whether the output file exists afterwards
OutputAfterFailure(written) == FALSE

\* remove_unwanted_tracks, and what process_file_with_selection does with
\* its outcome when the original is not replaced
RunRemux ==
    /\ pc = "process"
    /\ \E tool \in ToolOutcomes(selected_audio_tracks), written \in BOOLEAN :
          /\ tool = "not_run" => ~written
          /\ tool = "zero" => written
          /\ remux' = tool
          /\ output_written' = written
          /\ output_exists' = IF tool = "nonzero" THEN OutputAfterFailure(written)
                              ELSE written
          /\ IF tool = "zero" /\ replace_original_file
             THEN pc' = "replace" /\ process_result' = process_result
             ELSE /\ pc' = "processed"
                  /\ process_result' = IF tool = "zero" THEN "True" ELSE "False"
    /\ UNCHANGED <<args_vars, valid_files, file_index, file_selections, analysis_failed,
                   success_count, processing_failed, attempted, cancelled_files,
                   replace_original_file, create_backup, backup_exists, backups,
                   backup_file, original_replaced,
                   session_end, exit_code, input_vars, session_vars, file_vars, engine_vars>>

BackupFileFixed(existing, candidate) == candidate

\* the while loop of create_backup from the name candidate on: the first name
\* that does not exist
RECURSIVE BackupFile(_, _)
BackupFile(existing, candidate) ==
    IF candidate \in existing THEN BackupFile(existing, candidate + 1) ELSE candidate

\* replace_original with create_backup_file: create_backup links or copies the
\* original to a free name before the rename; an OSError of the copy leaves
\* replace_original, and process_file_with_selection returns False
BackupOriginal ==
    /\ pc = "replace"
    /\ create_backup
    /\ \E copied \in BOOLEAN :
          IF copied
          THEN /\ backup_file' = BackupFile(backups, 0)
               /\ backup_exists' = TRUE
               /\ pc' = "rename"
               /\ process_result' = process_result
          ELSE /\ backup_file' = backup_file
               /\ backup_exists' = FALSE
               /\ pc' = "processed"
               /\ process_result' = "False"
    /\ UNCHANGED <<args_vars, valid_files, file_index, file_selections, analysis_failed,
                   success_count, processing_failed, attempted, cancelled_files,
                   replace_original_file, create_backup, remux, output_written,
                   output_exists, backups, original_replaced,
                   session_end, exit_code, input_vars, session_vars, file_vars, engine_vars>>

\* replace_original after the backup step: filtered_file.replace(input_file);
\* an OSError is caught by process_file_with_selection, which returns False
ReplaceOriginal ==
    /\ pc = "rename" \/ (pc = "replace" /\ ~create_backup)
    /\ \E renamed \in BOOLEAN :
          /\ original_replaced' = renamed
          /\ output_exists' = ~renamed
          /\ process_result' = IF renamed THEN "True" ELSE "False"
    /\ pc' = "processed"
    /\ UNCHANGED <<args_vars, valid_files, file_index, file_selections, analysis_failed,
                   success_count, processing_failed, attempted, cancelled_files,
                   replace_original_file, create_backup, remux, output_written,
                   backup_exists, backups, backup_file,
                   session_end, exit_code, input_vars, session_vars, file_vars, engine_vars>>

\* the selections a call may be given
ProcessSelections ==
    {MakeTracks(langs, 1) : langs \in SeqsUpTo(FileAudioLanguages, MaxFileTracks)}

ProcessInit ==
    /\ selected_audio_tracks \in ProcessSelections
    /\ selected_subtitle_tracks \in ProcessSelections
    /\ default_audio_track = NoTrack
    /\ default_audio_index = NoIndex
    /\ default_subtitle_track = NoTrack
    /\ default_subtitle_index = NoIndex
    /\ result = NoResult
    /\ replace_original_file \in BOOLEAN
    /\ create_backup \in BOOLEAN
    /\ remux = "none"
    /\ output_written = FALSE
    /\ output_exists = FALSE
    /\ backup_exists = FALSE
    /\ backups \in SUBSET (0..(MaxBackups - 1))
    /\ backup_file = NoIndex
    /\ original_replaced = FALSE
    /\ process_result = "<None>"
    /\ config = NoConfig
    /\ audio_tracks = <<>>
    /\ subtitle_tracks = <<>>
    /\ non_interactive = TRUE
    /\ kind = "audio"
    /\ pc = "process"
    /\ filenames = <<[exists |-> TRUE, audio |-> <<>>, subtitles |-> <<>>]>>
    /\ output_given = FALSE
    /\ config_arg = FALSE
    /\ config_file = "ok"
    /\ config_content = NoConfig
    /\ valid_files = <<1>>
    /\ file_index = 1
    /\ file_selections = <<>>
    /\ analysis_failed = <<>>
    /\ success_count = 0
    /\ processing_failed = <<>>
    /\ attempted = <<>>
    /\ cancelled_files = {}
    /\ session_end = "none"
    /\ exit_code = NoCode
    /\ IdleSession
    /\ IdleEngine

ProcessNext ==
    \/ RunRemux
    \/ BackupOriginal
    \/ ReplaceOriginal

SpecProcess == ProcessInit /\ [][ProcessNext]_vars

-----------------------------------------------------------------------------
(* Claims about the commands of a session, checked under SpecSession *)

\* the session has handled the line user_input and shows its prompt again
Handled == pc = "browsing" /\ user_input # NoLine

\* the token is a decimal number / a range A-B of two decimal numbers
IsNumberToken(t) == FirstHyphen(t) = 0 /\ IntOf(t).ok
NumberOf(t) == IntOf(t).val
IsRangeToken(t) ==
    /\ FirstHyphen(t) > 0
    /\ IntOf(SubSeq(t, 1, FirstHyphen(t) - 1)).ok
    /\ IntOf(SubSeq(t, FirstHyphen(t) + 1, Len(t))).ok
RangeStart(t) == IntOf(SubSeq(t, 1, FirstHyphen(t) - 1)).val
RangeEnd(t) == IntOf(SubSeq(t, FirstHyphen(t) + 1, Len(t))).val

\* the token names tracks of a list of n tracks
ValidToken(t, n) ==
    \/ IsNumberToken(t) /\ 1 <= NumberOf(t) /\ NumberOf(t) <= n
    \/ /\ IsRangeToken(t)
       /\ 1 <= RangeStart(t)
       /\ RangeStart(t) <= RangeEnd(t)
       /\ RangeEnd(t) <= n

\* the token refers to the 0-based index i
Refers(t, i) ==
    \/ IsNumberToken(t) /\ NumberOf(t) = i + 1
    \/ IsRangeToken(t) /\ RangeStart(t) <= i + 1 /\ i + 1 <= RangeEnd(t)

\* how many tokens of the line refer to index i
References(line, i) ==
    Cardinality({k \in 1..Len(Split(line)) : Refers(Split(line)[k], i)})

\* the line is "d" followed by a number: a default command
IsDefaultForm(line) == line # <<>> /\ line[1] = "d" /\ IntOf(Tail(line)).ok
DefaultNumber(line) == IntOf(Tail(line)).val

\* the line is a selection command: not a keyword, not empty, not a default command
IsSelectionForm(line) ==
    /\ line \notin {<<"q">>, <<"q", "u", "i", "t">>, <<"n">>, <<"n", "e", "x", "t">>, <<"c">>}
    /\ line # <<>>
    /\ ~IsDefaultForm(line)

ValidSelection(line, n) ==
    /\ IsSelectionForm(line)
    /\ \A k \in 1..Len(Split(line)) : ValidToken(Split(line)[k], n)

\* C7: a dN command sets the default to N-1 only when 1 <= N <= track_count
\* and index N-1 is not in the removal set; otherwise the command is rejected
\* and both the removal set and the default are unchanged.
C7_DefaultCommandGuarded ==
    Handled /\ IsDefaultForm(user_input) =>
        LET N == DefaultNumber(user_input)
        IN /\ tracks_to_remove = prev_remove
           /\ IF 1 <= N /\ N <= Len(Tracks) /\ (N - 1) \notin prev_remove
              THEN current_default = N - 1
              ELSE current_default = prev_default

\* "d2" while index 1 is in the removal set and another track is the default:
\* nothing has changed
C7_Witness ==
    /\ Handled
    /\ user_input = <<"d", "2">>
    /\ Len(Tracks) >= 2
    /\ 1 \in prev_remove
    /\ prev_default = 0
    /\ current_default = 0
    /\ tracks_to_remove = prev_remove

\* C8: a valid selection command toggles the membership of exactly the
\* referenced indices, once per reference (an index referenced an odd number
\* of times changes membership, every other index keeps it); the default is
\* cleared exactly when one of these toggles adds the default's index to the
\* removal set, and is otherwise unchanged.
C8_SelectionToggles ==
    Handled /\ ValidSelection(user_input, Len(Tracks)) =>
        /\ \A i \in 0..(Len(Tracks) - 1) :
              (i \in tracks_to_remove) =
                  IF References(user_input, i) % 2 = 1
                  THEN i \notin prev_remove ELSE i \in prev_remove
        /\ tracks_to_remove \subseteq 0..(Len(Tracks) - 1)
        /\ LET added == \/ prev_default \notin prev_remove
                           /\ References(user_input, prev_default) >= 1
                        \/ prev_default \in prev_remove
                           /\ References(user_input, prev_default) >= 2
           IN current_default =
                  IF prev_default # NoIndex /\ added THEN NoIndex ELSE prev_default

\* "1 2-3" on three tracks with index 1 removed and index 2 the default:
\* indices 0 and 2 are added, index 1 is taken out, the default is cleared
C8_Witness ==
    /\ Handled
    /\ user_input = <<"1", " ", "2", "-", "3">>
    /\ Len(Tracks) = 3
    /\ prev_remove = {1}
    /\ prev_default = 2
    /\ tracks_to_remove = {0, 2}
    /\ current_default = NoIndex

\* the line is one valid track number
IsSingleIndex(line, n) ==
    Len(Split(line)) = 1 /\ IsNumberToken(line) /\ 1 <= NumberOf(line) /\ NumberOf(line) <= n

\* C9: the same single-index selection command issued twice in a row leaves
\* the removal set equal to its value before the first of the two commands.
C9_ToggleInvolution ==
    Handled /\ repeated /\ IsSingleIndex(user_input, Len(Tracks)) =>
        tracks_to_remove = before_repeat

\* "2" twice: index 1 was added by the first and taken out by the second
C9_Witness ==
    /\ Handled
    /\ repeated
    /\ user_input = <<"2">>
    /\ 1 \in prev_remove
    /\ 1 \notin tracks_to_remove
    /\ before_repeat = {0}
    /\ tracks_to_remove = {0}

\* C10: a selection command with a token that is not a number in
\* [1, track_count], nor a range with both bounds in [1, track_count] and
\* start <= end, toggles nothing: the removal set and the default are unchanged.
C10_InvalidSelectionChangesNothing ==
    Handled /\ IsSelectionForm(user_input)
            /\ ~ValidSelection(user_input, Len(Tracks)) =>
        /\ tracks_to_remove = prev_remove
        /\ current_default = prev_default

\* "1 4" on three tracks: the valid token 1 precedes the bad one, and index 0,
\* the default, is neither added nor cleared
C10_Witness ==
    /\ Handled
    /\ user_input = <<"1", " ", "4">>
    /\ Len(Tracks) = 3
    /\ 0 \notin prev_remove
    /\ prev_default = 0
    /\ tracks_to_remove = prev_remove
    /\ current_default = 0

\* every track of the session is marked for removal
AllRemoved == \A i \in 0..(Len(Tracks) - 1) : i \in tracks_to_remove

\* the step handles the line "n" or "next"
NextIssued == pc = "browsing" /\ user_input' \in NextWords

\* the kept list the session of the current kind has returned
ReturnedKept == IF kind = "audio" THEN selected_audio_tracks ELSE selected_subtitle_tracks

\* C11 as stated: in a session of either kind, next with every track marked for
\* removal leads to the confirmation prompt, and no step that handles next
\* returns an empty kept list.
C11_ConfirmationInEitherKind ==
    [][NextIssued /\ AllRemoved =>
          /\ pc' = "confirm"
          /\ UNCHANGED <<selected_audio_tracks, selected_subtitle_tracks, result>>]_vars

\* C11 (amended): in an audio session, next with every track marked for removal
\* leads to the confirmation prompt and returns nothing yet, and an empty audio
\* kept list is returned only by the answer to that prompt or by an interrupt;
\* in a subtitle session the same command returns the empty kept list at once,
\* without a prompt.
C11_ConfirmationInAudioOnly ==
    [][/\ NextIssued /\ AllRemoved =>
             IF kind = "audio"
             THEN /\ pc' = "confirm"
                  /\ UNCHANGED <<selected_audio_tracks, selected_subtitle_tracks, result>>
             ELSE /\ pc' = "finalize"
                  /\ selected_subtitle_tracks' = <<>>
       /\ NextIssued /\ kind = "audio" /\ pc' # "confirm" => selected_audio_tracks' # <<>>
      ]_vars

\* the user has answered yes to the prompt of an audio session with all three
\* tracks marked for removal
C11_Witness ==
    /\ pc = "done"
    /\ kind = "audio"
    /\ Len(audio_tracks) = 3
    /\ AllRemoved
    /\ user_input \in NextWords
    /\ session_end = "confirmed"
    /\ selected_audio_tracks = <<>>
    /\ result.status = "no_selection"

-----------------------------------------------------------------------------
(* Claims about the analysis of one file, checked under Spec *)

\* the non-interactive selection of a kind has run
AudioSelected ==
    /\ non_interactive
    /\ audio_tracks # <<>>
    /\ \/ pc \in {"subtitle", "finalize"}
       \/ pc = "done" /\ result.status \in {"success", "all_selected", "no_selection"}

SubtitleSelected ==
    /\ non_interactive
    /\ subtitle_tracks # <<>>
    /\ \/ pc = "finalize"
       \/ pc = "done" /\ result.status \in {"success", "all_selected"}

\* the k-th index of the list that is not in the set removed
KthKeptIndex(n, removed, k) ==
    CHOOSE i \in 0..(n - 1) :
        /\ i \notin removed
        /\ Cardinality({j \in 0..(i - 1) : j \notin removed}) = k - 1

\* kept is tracks with the indices in removed deleted, in the original order
IsListWithout(kept, tracks, removed) ==
    /\ Len(kept) = Len(tracks) - Cardinality(removed \cap (0..(Len(tracks) - 1)))
    /\ \A k \in 1..Len(kept) : kept[k] = tracks[KthKeptIndex(Len(tracks), removed, k) + 1]

\* C2: in non-interactive selection with rules present, the kept list of each
\* kind is the original track list with the tracks at the apply_defaults
\* removal indices deleted, in the original relative order.
C2_NonInteractiveKeptList ==
    /\ AudioSelected /\ has_rules(config) =>
          IsListWithout(selected_audio_tracks, audio_tracks,
                        ExpectedRemovalOf(audio_tracks, config.keep_languages,
                                          config.remove_languages))
    /\ SubtitleSelected /\ has_rules(config) =>
          IsListWithout(selected_subtitle_tracks, subtitle_tracks,
                        ExpectedRemovalOf(subtitle_tracks, config.keep_subtitle_languages,
                                          config.remove_subtitle_languages))

\* keep_audio = {eng} on [eng, jpn, eng] keeps tracks 1 and 3, and
\* remove_subtitle = {jpn} on [eng, jpn] keeps [eng]
C2_Witness ==
    /\ non_interactive
    /\ pc = "done"
    /\ result.status = "success"
    /\ config.keep_languages = {"eng"}
    /\ config.remove_languages = {}
    /\ config.keep_subtitle_languages = {}
    /\ config.remove_subtitle_languages = {"jpn"}
    /\ Len(audio_tracks) = 3
    /\ audio_tracks[1].language = "eng"
    /\ audio_tracks[2].language = "jpn"
    /\ audio_tracks[3].language = "eng"
    /\ selected_audio_tracks = <<audio_tracks[1], audio_tracks[3]>>
    /\ Len(subtitle_tracks) = 2
    /\ subtitle_tracks[1].language = "eng"
    /\ subtitle_tracks[2].language = "jpn"
    /\ selected_subtitle_tracks = <<subtitle_tracks[1]>>

\* the track is none or its id is the id of a track of the kept list
DefaultAmongKept(track, kept) ==
    \/ track = NoTrack
    \/ /\ kept # NoList
       /\ \E k \in 1..Len(kept) : kept[k].mkvmerge_id = track.mkvmerge_id

\* C5: in both modes and after any sequence of session commands, the default
\* track of each kind in the analysis result is none or has the mkvmerge_id of
\* a track of the kept list of that kind.
C5_DefaultAmongKept ==
    pc = "done" =>
        /\ DefaultAmongKept(result.default_audio_track, result.selected_tracks)
        /\ DefaultAmongKept(result.default_subtitle_track, result.selected_subtitle_tracks)

\* an interactive run in which tracks were removed and a default was chosen
\* by command for both kinds
C5_Witness ==
    /\ pc = "done"
    /\ ~non_interactive
    /\ result.status = "success"
    /\ Len(result.selected_tracks) < Len(audio_tracks)
    /\ Len(result.selected_subtitle_tracks) < Len(subtitle_tracks)
    /\ result.default_audio_track # NoTrack
    /\ result.default_subtitle_track # NoTrack
    /\ result.default_audio_track.mkvmerge_id = 2
    /\ user_input = <<"n">>
    /\ config.is_none

\* the first track of the list whose language is lang, when it is in kept
FirstOfLanguageIfKept(tracks, lang, kept) ==
    LET matching == {k \in 1..Len(tracks) : lang # None /\ LangOf(tracks[k]) = lang}
    IN IF matching = {} THEN NoTrack
       ELSE LET first == tracks[CHOOSE k \in matching : \A j \in matching : k <= j]
            IN IF kept # NoList /\ \E k \in 1..Len(kept) : kept[k] = first
               THEN first ELSE NoTrack

\* C6: in non-interactive mode the default track reported for a kind is the
\* first track of the original list whose language is the configured default
\* language, provided that track is in the kept list; otherwise no default is
\* reported.
C6_NonInteractiveDefault ==
    pc = "done" /\ non_interactive =>
        /\ result.default_audio_track =
               FirstOfLanguageIfKept(audio_tracks, config.default_audio_language,
                                     result.selected_tracks)
        /\ result.default_subtitle_track =
               FirstOfLanguageIfKept(subtitle_tracks, config.default_subtitle_language,
                                     result.selected_subtitle_tracks)

\* the first jpn audio track was filtered out, so no audio default is
\* reported; the first jpn subtitle track, second of a list kept whole, is
\* reported
C6_Witness ==
    /\ pc = "done"
    /\ non_interactive
    /\ result.status = "success"
    /\ config.default_audio_language = "jpn"
    /\ config.default_subtitle_language = "jpn"
    /\ \E k \in 1..Len(audio_tracks) : audio_tracks[k].language = "jpn"
    /\ result.selected_tracks # <<>>
    /\ result.default_audio_track = NoTrack
    /\ Len(subtitle_tracks) = 2
    /\ subtitle_tracks[1].language = "eng"
    /\ result.selected_subtitle_tracks = subtitle_tracks
    /\ result.default_subtitle_track = subtitle_tracks[2]

-----------------------------------------------------------------------------
(* Claims about a run of main, checked under SpecBatch *)

\* the files with a recorded selection
RecordedFiles == {file_selections[k].filename : k \in 1..Len(file_selections)}

\* the files handed to the remux step
AttemptedFiles == {attempted[k] : k \in 1..Len(attempted)}

\* C12: a file with a session that ended cancelled, by quit or by an interrupt
\* or end of input at a prompt, is skipped: no selection is recorded for it and
\* it is never handed to the remux step.
C12_CancelledFileSkipped ==
    \A f \in cancelled_files : f \notin RecordedFiles /\ f \notin AttemptedFiles

\* the user has typed q or quit in the session of the current file
QuitIssued == user_input \in QuitWords

\* C13: once quit is issued in a session of Phase 1 the batch stops: the only
\* step left is the return of main, no further file is analysed, and no file
\* is handed to the remux step, the files with a recorded selection included.
C13_QuitStopsBatch ==
    [][QuitIssued =>
          /\ pc = "cancelled"
          /\ attempted = <<>>
          /\ pc' = "exit"
          /\ attempted' = <<>>
          /\ UNCHANGED <<file_index, file_selections, result>>]_vars

\* quit in the session of the second file, after the selection of the first
\* file was recorded: main has returned and nothing was remuxed
C13_Witness ==
    /\ pc = "exit"
    /\ QuitIssued
    /\ file_index = 2
    /\ Len(file_selections) = 1
    /\ file_selections[1].filename = 1
    /\ attempted = <<>>

\* Phase 1 is over: the loop has gone through every valid file
PhaseOneOver == file_index > Len(valid_files)

\* C14: the two phases are never interleaved: a file is handed to the remux
\* step only after discovery and selection have finished for every valid file,
\* and once the first remux has started there is no prompt and no analysis.
C14_PhasesNotInterleaved ==
    /\ pc = "phase2" => PhaseOneOver
    /\ attempted # <<>> => PhaseOneOver /\ pc \in {"phase2", "exit"}
    /\ pc \in {"analyze", "audio", "subtitle", "browsing", "confirm", "finalize", "done",
               "cancelled"} => attempted = <<>> /\ ~PhaseOneOver

\* the first of two recorded files has been remuxed, the second not yet, and
\* both valid files were analysed before
C14_Witness ==
    /\ pc = "phase2"
    /\ Len(valid_files) = 2
    /\ file_index = 3
    /\ Len(file_selections) = 2
    /\ attempted = <<1>>
    /\ ~non_interactive

\* C15: a file whose analysis ended with status all_selected (every audio and
\* every subtitle track kept) is skipped in Phase 1, with or without subtitle
\* tracks: main records no selection for it.
C15_AllKeptFileSkipped ==
    [][pc = "done" /\ result.status = "all_selected" =>
          file_selections' = file_selections]_vars

\* C16: whatever the outcomes of the files, a cancellation in Phase 1 included,
\* main returns 0 only if no file failed analysis and every file with a
\* recorded selection was processed successfully.
C16_ZeroOnlyOnFullSuccess ==
    pc = "exit" /\ exit_code = 0 =>
        /\ analysis_failed = <<>>
        /\ success_count = Len(file_selections)

\* the files whose processing failed
FailedFiles == {processing_failed[k] : k \in 1..Len(processing_failed)}

\* C17: in Phase 2 the files with a recorded selection are attempted one by
\* one in input order, each once; the loop goes on after a failure and ends
\* only when every recorded selection was attempted, whatever the Phase 1
\* outcome of the other files; a failure is recorded for the failing file only.
C17_EveryRecordedFileAttempted ==
    /\ Len(attempted) <= Len(file_selections)
    /\ \A k \in 1..Len(attempted) : attempted[k] = file_selections[k].filename
    /\ \A j, k \in 1..Len(file_selections) :
          j < k => file_selections[j].filename < file_selections[k].filename
    /\ pc = "phase2" => Len(attempted) < Len(file_selections)
    /\ pc = "exit" /\ attempted # <<>> => Len(attempted) = Len(file_selections)
    /\ FailedFiles \subseteq AttemptedFiles
    /\ success_count + Len(processing_failed) = Len(attempted)

\* the first recorded file failed in Phase 2, and the second was attempted
\* all the same
C17_Witness ==
    /\ pc = "exit"
    /\ Len(file_selections) = 2
    /\ attempted = <<1, 2>>
    /\ processing_failed # <<>>
    /\ processing_failed[1] = 1
    /\ exit_code = 1

\* C18: a failed analysis is recorded for that file only: the file is added to
\* analysis_failed, no selection is recorded or dropped, Phase 1 goes on with
\* the next file, and after the last file the recorded selections are
\* processed in Phase 2.
C18_DiscoveryFailureIsPerFile ==
    [][pc = "done" /\ result.status = "failed" =>
          /\ analysis_failed' = Append(analysis_failed, CurrentFile)
          /\ file_selections' = file_selections
          /\ file_index' = file_index + 1
          /\ file_index < Len(valid_files) => pc' = "analyze"
          /\ file_index = Len(valid_files) /\ file_selections # <<>> => pc' = "phase2"
          /\ file_index = Len(valid_files) /\ file_selections = <<>> =>
                pc' = "exit" /\ exit_code' = 1]_vars

\* discovery failed for the first file, the second file was analysed, recorded
\* and handed to the remux step all the same, and main returned 1
C18_Witness ==
    /\ pc = "exit"
    /\ analysis_failed = <<1>>
    /\ Len(file_selections) = 1
    /\ attempted = <<2>>
    /\ exit_code = 1
    /\ cancelled_files = {}

\* the paths that exist and are files
Existing == {i \in 1..Len(filenames) : filenames[i].exists}

\* no file has been analysed or processed
NothingDone ==
    /\ file_index = 1
    /\ result = NoResult
    /\ file_selections = <<>>
    /\ analysis_failed = <<>>
    /\ attempted = <<>>

C20_ConfigNeverFatal ==
    [][pc = "config" /\ config_file # "ok" =>
          /\ pc' = "main"
          /\ exit_code' = exit_code
          /\ config'.is_none \/ ~has_rules(config')]_vars

\* C20 (amended): an explicit configuration path that does not exist ends the
\* run with exit code 1 before any file is analysed; an auto-discovered file
\* that is missing, or a file that cannot be parsed, leaves the run without a
\* configuration and the run goes on; a file that parses is loaded as it is, a
\* file without keys giving an empty rule set; an interactive run then starts
\* Phase 1.
C20_OnlyExplicitMissingConfigFatal ==
    [][/\ pc = "config" =>
            IF config_arg /\ config_file = "missing"
            THEN pc' = "exit" /\ exit_code' = 1 /\ NothingDone'
            ELSE /\ pc' = "main"
                 /\ exit_code' = exit_code
                 /\ config_file # "ok" => config'.is_none
                 /\ config_file = "ok" => config' = config_content
       /\ pc = "main" /\ ~non_interactive => pc' = "analyze" /\ exit_code' = exit_code]_vars

\* an explicit configuration file could not be parsed, and the run analysed a
\* file without a configuration and handed it to the remux step
C20_Witness ==
    /\ config_arg
    /\ config_file = "malformed"
    /\ config.is_none
    /\ attempted # <<>>

\* the run was started without rules: no configuration file could be loaded,
\* or the file read sets none of the four language sets
NoRulesConfigured == config_file # "ok" \/ ~has_rules(config_content)

\* C21 as stated: in non-interactive mode without rules main goes on to
\* analyse the files in Phase 1, and the missing rules set no exit code.
C21_NoRulesIsPerFileSkip ==
    [][pc = "main" /\ non_interactive /\ NoRulesConfigured =>
          pc' = "analyze" /\ exit_code' = exit_code]_vars

\* C21 (amended): in non-interactive mode without rules the run ends with exit
\* code 1 before Phase 1: no file is analysed, recorded or processed.
C21_NoRulesEndsRun ==
    non_interactive /\ NoRulesConfigured =>
        /\ pc \in {"start", "config", "main", "exit"}
        /\ NothingDone
        /\ pc = "exit" => exit_code = 1

\* a non-interactive run over an existing file with tracks read a
\* configuration file without keys and ended with exit code 1
C21_Witness ==
    /\ non_interactive
    /\ config_file = "ok"
    /\ ~config.is_none
    /\ ~has_rules(config)
    /\ valid_files # <<>>
    /\ audio_tracks # <<>>
    /\ ~output_given
    /\ pc = "exit"
    /\ exit_code = 1

-----------------------------------------------------------------------------
(* Claims about analyze_and_select_tracks called on its own, checked under *)
(* SpecAnalyze                                                             *)

\* C22: in non-interactive mode with has_rules() false, a file with at least
\* one audio track is skipped with status no-selection and records neither an
\* audio nor a subtitle selection, and a file with subtitle tracks only keeps
\* every subtitle track, in the original order.
C22_NoRulesAsymmetry ==
    non_interactive /\ (config.is_none \/ ~has_rules(config))
        /\ pc = "done" /\ result.status # "failed" =>
        /\ audio_tracks # <<>> =>
              /\ result.status = "no_selection"
              /\ result.selected_tracks = NoList
              /\ result.selected_subtitle_tracks = NoList
        /\ audio_tracks = <<>> /\ subtitle_tracks # <<>> =>
              /\ result.status = "all_selected"
              /\ result.selected_subtitle_tracks = subtitle_tracks
              /\ result.all_subtitle_tracks = subtitle_tracks

\* a file with two subtitle tracks and no audio track, analysed with a
\* configuration that sets a default language and no rule
C22_Witness ==
    /\ non_interactive
    /\ ~config.is_none
    /\ ~has_rules(config)
    /\ pc = "done"
    /\ audio_tracks = <<>>
    /\ Len(subtitle_tracks) = 2
    /\ result.selected_subtitle_tracks = subtitle_tracks

-----------------------------------------------------------------------------
(* Further claims about a session, checked under SpecSession *)

\* the line "clear"
ClearLine == <<"c", "l", "e", "a", "r">>

\* C23 as stated: after "clear" or "c" the removal set is empty and there is
\* no default.
C23_ClearAndCEmpty ==
    Handled /\ user_input \in {<<"c">>, ClearLine} =>
        tracks_to_remove = {} /\ current_default = NoIndex

\* C23 (amended): "c" empties the removal set and clears the default from any
\* state of the session; "clear" is no command, it is read as a selection
\* that does not parse and changes neither; both leave the session browsing.
C23_OnlyCClears ==
    /\ Handled /\ user_input = <<"c">> =>
          tracks_to_remove = {} /\ current_default = NoIndex
    /\ Handled /\ user_input = ClearLine =>
          tracks_to_remove = prev_remove /\ current_default = prev_default
    /\ user_input \in {<<"c">>, ClearLine} /\ session_end = "none" => pc = "browsing"

\* "c" was typed with tracks marked and a default set
C23_Witness ==
    /\ Handled
    /\ user_input = <<"c">>
    /\ prev_remove # {}
    /\ prev_default # NoIndex
    /\ tracks_to_remove = {}
    /\ current_default = NoIndex

\* the line is no command the session accepts: a selection that does not
\* name tracks of the list, or a dN whose N is out of range or marked
InvalidLine(line, n, removed) ==
    \/ IsSelectionForm(line) /\ ~ValidSelection(line, n)
    \/ /\ IsDefaultForm(line)
       /\ \/ DefaultNumber(line) < 1
          \/ DefaultNumber(line) > n
          \/ (DefaultNumber(line) - 1) \in removed

\* C25: a session is browsing until it ends confirmed or cancelled; after a
\* line other than quit/q and next/n it is still browsing unless an interrupt
\* has cancelled it since, and an empty or invalid line changes neither the
\* removal set nor the default.
C25_OnlyQuitAndNextLeaveBrowsing ==
    /\ session_end \in {"none", "confirmed", "cancelled"}
    /\ pc \in {"browsing", "confirm"} => session_end = "none"
    /\ session_end = "none" => pc \in {"audio", "subtitle", "browsing", "confirm"}
    /\ user_input \notin (QuitWords \cup NextWords \cup {NoLine}) =>
          /\ session_end \in {"none", "cancelled"}
          /\ session_end = "none" => pc = "browsing"
          /\ session_end = "cancelled" => ReturnedKept = <<>>
    /\ user_input \in QuitWords => pc = "cancelled"
    /\ pc = "confirm" => user_input \in NextWords
    /\ Handled /\ (user_input = <<>>
                    \/ InvalidLine(user_input, Len(Tracks), prev_remove)) =>
          tracks_to_remove = prev_remove /\ current_default = prev_default

\* an empty line was read with a track marked and a default set
C25_Witness ==
    /\ Handled
    /\ user_input = <<>>
    /\ prev_remove # {}
    /\ prev_default # NoIndex
    /\ tracks_to_remove = prev_remove
    /\ current_default = prev_default
    /\ session_end = "none"

-----------------------------------------------------------------------------
(* Further claims about the analysis of one file, checked under Spec *)

\* C26: no step of the analysis of a file changes the configuration or the
\* track lists read from the file; while a session is browsing only its
\* removal set and its default change (with the record of the lines read); and
\* the track lists a result reports are the lists read from the file.
C26_RulesAndTracksReadOnly ==
    [][/\ config' = config
       /\ audio_tracks' = audio_tracks
       /\ subtitle_tracks' = subtitle_tracks
       /\ pc = "browsing" /\ pc' = "browsing" =>
             UNCHANGED <<non_interactive, kind, file_vars, batch_vars>>
       /\ result' # result /\ result'.status \in {"success", "all_selected"} =>
             /\ result'.all_tracks = audio_tracks
             /\ result'.all_subtitle_tracks = subtitle_tracks]_vars

\* an interactive analysis under a configuration with rules ended after the
\* user changed the removal set the rules gave
C26_Witness ==
    /\ pc = "done"
    /\ ~non_interactive
    /\ ~config.is_none
    /\ has_rules(config)
    /\ result.status = "success"
    /\ Len(audio_tracks) = 2
    /\ Len(subtitle_tracks) = 2
    /\ result.all_tracks = audio_tracks
    /\ result.selected_subtitle_tracks # KeepTracks(subtitle_tracks,
                                             apply_subtitle_defaults(config, subtitle_tracks), 0)

-----------------------------------------------------------------------------
(* Claims about the processing of one file, checked under SpecProcess *)

\* C27: when mkvmerge exits non-zero, process_file_with_selection fails for
\* the file, the output file written so far does not exist any more, and the
\* original is untouched: no backup was made and it was not replaced.
C27_FailedRemuxLeavesOriginal ==
    remux = "nonzero" =>
        /\ pc = "processed"
        /\ process_result = "False"
        /\ ~output_exists
        /\ ~backup_exists
        /\ ~original_replaced

\* mkvmerge wrote part of the output and exited non-zero, in a call that asks
\* for the original to be replaced with a backup
C27_Witness ==
    /\ remux = "nonzero"
    /\ output_written
    /\ ~output_exists
    /\ replace_original_file
    /\ create_backup
    /\ process_result = "False"

-----------------------------------------------------------------------------
(* Claims about what a session returns and how it starts, checked under *)
(* SpecSession                                                          *)

\* the default index the session of the current kind has returned
ReturnedDefault == IF kind = "audio" THEN default_audio_index ELSE default_subtitle_index

\* C28: a confirmed session returns the tracks whose index is not in the
\* removal set as it was when next was issued, in the original order, and
\* returns the default index of that moment unless it is in the removal set,
\* in which case it returns none.
C28_ConfirmedReturnsKept ==
    session_end = "confirmed" =>
        /\ user_input \in NextWords
        /\ tracks_to_remove = prev_remove
        /\ IsListWithout(ReturnedKept, Tracks, prev_remove)
        /\ \A j, k \in 1..Len(ReturnedKept) :
              j < k => IndexOfId(Tracks, ReturnedKept[j].mkvmerge_id)
                          < IndexOfId(Tracks, ReturnedKept[k].mkvmerge_id)
        /\ ReturnedDefault = IF prev_default # NoIndex /\ prev_default \notin prev_remove
                             THEN prev_default ELSE NoIndex

\* next on three tracks with the middle one marked and the last the default
C28_Witness ==
    /\ session_end = "confirmed"
    /\ Len(Tracks) = 3
    /\ prev_remove = {1}
    /\ prev_default = 2
    /\ ReturnedKept = <<Tracks[1], Tracks[3]>>
    /\ ReturnedDefault = 2

\* the session shows its first prompt
Started == pc = "browsing" /\ user_input = NoLine

\* the indices of the tracks in the configured default language of the kind
DefaultCandidates ==
    {i \in 0..(Len(Tracks) - 1) : LangOf(Tracks[i + 1]) = DefaultLanguage}

\* C29: a session starts with the removal set the rules of its kind give, the
\* empty set when the kind has no rules or there is no configuration, and with
\* the default at the first track in the configured default language of the
\* kind, none when no language is configured or no track matches.
C29_SessionStartsFromRules ==
    Started =>
        /\ tracks_to_remove =
              IF ~config.is_none /\ (KeepSet # {} \/ RemoveSet # {})
              THEN ExpectedRemoval ELSE {}
        /\ current_default =
              IF ~config.is_none /\ DefaultLanguage # None /\ DefaultCandidates # {}
              THEN CHOOSE i \in DefaultCandidates : \A j \in DefaultCandidates : i <= j
              ELSE NoIndex

\* three tracks eng, jpn, eng under "remove eng" with default language jpn
C29_Witness ==
    /\ Started
    /\ Len(Tracks) = 3
    /\ RemoveSet = {"eng"}
    /\ DefaultLanguage = "jpn"
    /\ tracks_to_remove = {0, 2}
    /\ current_default = 1

\* C30: in every state of a session, from its first prompt on, the default is
\* none or an index that is not in the removal set.
C30_DefaultNeverMarked ==
    pc = "browsing" => current_default = NoIndex \/ current_default \notin tracks_to_remove

-----------------------------------------------------------------------------
(* Claims about repeated references in one selection command, checked under  *)
(* SpecSession                                                               *)

\* the valid selection user_input names the default of the state before it an
\* even number of times, at least twice
DefaultNamedEvenly ==
    /\ Handled
    /\ ValidSelection(user_input, Len(Tracks))
    /\ prev_default # NoIndex
    /\ References(user_input, prev_default) >= 2
    /\ References(user_input, prev_default) % 2 = 0

\* C31 as stated: a selection command that references the current default an
\* even number of times leaves the removal set unchanged, and clears the
\* default when its index was not in the removal set before the command.
C31_EvenReferencesKeepRemovalSet ==
    DefaultNamedEvenly =>
        /\ tracks_to_remove = prev_remove
        /\ prev_default \notin prev_remove => current_default = NoIndex

\* C31: a selection command that references the current default an even
\* number of times leaves the membership of that index in the removal set
\* unchanged, and leaves the whole removal set unchanged when every index is
\* referenced an even number of times; it clears the default when its index
\* was not in the removal set before the command.
C31_EvenReferencesKeepMembership ==
    DefaultNamedEvenly =>
        /\ (prev_default \in tracks_to_remove) = (prev_default \in prev_remove)
        /\ (\A i \in 0..(Len(Tracks) - 1) : References(user_input, i) % 2 = 0)
              => tracks_to_remove = prev_remove
        /\ prev_default \notin prev_remove => current_default = NoIndex

\* "1 1" while index 0 is the default and no track is marked: the removal set
\* is still empty and the default is gone
C31_Witness ==
    /\ Handled
    /\ user_input = <<"1", " ", "1">>
    /\ prev_default = 0
    /\ prev_remove = {}
    /\ tracks_to_remove = {}
    /\ current_default = NoIndex

-----------------------------------------------------------------------------
(* Claims about the remove-all confirmation in a batch, checked under        *)
(* SpecBatch                                                                 *)

\* the audio session of the current file ended at the confirmation prompt
\* with an answer: next was typed with every audio track marked, and the
\* analysis has returned without failing on end of input
RemoveAllAnswered ==
    /\ pc = "done"
    /\ kind = "audio"
    /\ user_input \in NextWords
    /\ audio_tracks # <<>>
    /\ tracks_to_remove = 0..(Len(audio_tracks) - 1)
    /\ session_end \in {"confirmed", "cancelled"}
    /\ result.status # "failed"

\* C32: for a file with at least one audio track no selection with an empty
\* audio kept list is ever recorded for Phase 2; when the audio session ends
\* with every audio track removed, the file is skipped with status
\* no_selection whether the confirmation is accepted or declined, its
\* subtitle session is not run, and main has not returned: the Phase 1 loop
\* goes on with the next file.
C32_RemoveAllSkipsFile ==
    /\ \A k \in 1..Len(file_selections) :
          AudioTracksOf(filenames[file_selections[k].filename]) # <<>>
              => file_selections[k].selected_tracks # <<>>
    /\ RemoveAllAnswered =>
          /\ result = SkippedNoSelection
          /\ ~should_process(result)
          /\ selected_audio_tracks = <<>>
          /\ selected_subtitle_tracks = <<>>
          /\ default_subtitle_index = NoIndex
          /\ CurrentFile \notin RecordedFiles
          /\ exit_code = NoCode
    /\ pc = "confirm" => kind = "audio" /\ exit_code = NoCode

\* the confirmation was accepted for the first of two files, which has audio
\* and subtitle tracks: the analysis has returned no_selection without a
\* subtitle session, and the loop is about to go to the second file
C32_Witness ==
    /\ RemoveAllAnswered
    /\ session_end = "confirmed"
    /\ subtitle_tracks # <<>>
    /\ result.status = "no_selection"
    /\ file_index = 1
    /\ Len(valid_files) = 2

-----------------------------------------------------------------------------
(* Claims about the order of the sessions of a batch, checked under SpecBatch *)

\* the files the Phase 1 loop has left behind
EarlierFiles == {valid_files[j] : j \in 1..(file_index - 1)}

\* the analysis of the current file is under way
Analysing ==
    pc \in {"analyze", "audio", "subtitle", "browsing", "confirm", "finalize", "done",
            "cancelled"}

\* C33: within one file's analysis the audio selection is complete before the
\* subtitle selection begins, and the sessions of different files do not
\* overlap: while a file is analysed every outcome on record belongs to an
\* earlier file, and the analysis of a file begins with nothing selected and
\* no session ended.  Each session starts from its own initial state, given
\* by the configuration and the tracks of its kind alone, whatever the removal
\* set and the default of an earlier session were.
C33_SessionsInSequence ==
    /\ pc \in {"browsing", "confirm"} /\ kind = "audio" =>
          /\ selected_audio_tracks = <<>>
          /\ selected_subtitle_tracks = <<>>
          /\ default_subtitle_index = NoIndex
          /\ session_end = "none"
          /\ result = NoResult
    /\ pc = "browsing" /\ kind = "subtitle" =>
          /\ result = NoResult
          /\ IF audio_tracks = <<>>
             THEN selected_audio_tracks = <<>> /\ session_end = "none"
             ELSE selected_audio_tracks # <<>> /\ session_end = "confirmed"
    /\ pc = "confirm" => kind = "audio"
    /\ Analysing =>
          /\ file_index <= Len(valid_files)
          /\ RecordedFiles \subseteq EarlierFiles
          /\ \A k \in 1..Len(analysis_failed) : analysis_failed[k] \in EarlierFiles
          /\ cancelled_files \subseteq EarlierFiles
    /\ pc \in {"analyze", "audio"} =>
          /\ selected_audio_tracks = <<>>
          /\ selected_subtitle_tracks = <<>>
          /\ tracks_to_remove = {}
          /\ current_default = NoIndex
          /\ session_end = "none"
          /\ result = NoResult
    /\ Started =>
          /\ tracks_to_remove =
                IF ~config.is_none /\ (KeepSet # {} \/ RemoveSet # {})
                THEN ExpectedRemoval ELSE {}
          /\ current_default =
                IF ~config.is_none /\ DefaultLanguage # None /\ DefaultCandidates # {}
                THEN CHOOSE i \in DefaultCandidates : \A j \in DefaultCandidates : i <= j
                ELSE NoIndex

\* the first prompt of the subtitle session of the second file, without a
\* configuration: the audio session of this file has ended with a selection,
\* the first file has been filed, and nothing is marked and no default is set
C33_Witness ==
    /\ Started
    /\ kind = "subtitle"
    /\ file_index = 2
    /\ config.is_none
    /\ selected_audio_tracks # <<>>
    /\ default_audio_index = 0
    /\ session_end = "confirmed"
    /\ tracks_to_remove = {}
    /\ current_default = NoIndex

-----------------------------------------------------------------------------
(* Claims about the backup of the original file, checked under SpecProcess *)

\* C34: when the original is replaced with backups enabled, the backup exists
\* before the original is overwritten (after the backup step the original is
\* still in place, and it is never overwritten when the backup failed), and
\* the backup is written under a name that did not exist when the call
\* started; with backup suppression no backup file is created.
C34_BackupBeforeOverwrite ==
    /\ original_replaced /\ create_backup => backup_exists /\ backup_file # NoIndex
    /\ pc = "rename" => create_backup /\ backup_exists /\ ~original_replaced
    /\ backup_exists = (backup_file # NoIndex)
    /\ backup_file # NoIndex => backup_file \notin backups
    /\ ~create_backup => ~backup_exists /\ backup_file = NoIndex
    /\ original_replaced => remux = "zero" /\ replace_original_file

\* the original was replaced with backups enabled while _original_<name> and
\* _original_1_<name> existed: the backup went to _original_2_<name>
C34_Witness ==
    /\ original_replaced
    /\ create_backup
    /\ backups = {0, 1}
    /\ backup_file = 2
    /\ backup_exists
    /\ process_result = "True"

-----------------------------------------------------------------------------
(* Claims about the range of the indices of a session, checked under *)
(* SpecSession                                                       *)

\* the 0-based indices of the tracks of the session
TrackIndices == 0..(Len(Tracks) - 1)

\* C35: in every state of an interactive session over n tracks every element
\* of the removal set is an index in [0, n-1] and the default is none or an
\* index in [0, n-1]; a command that names a track outside 1..n is rejected
\* and introduces no index.
C35_IndicesInRange ==
    /\ tracks_to_remove \subseteq TrackIndices
    /\ current_default \in TrackIndices \cup {NoIndex}
    /\ prev_remove \subseteq TrackIndices
    /\ prev_default \in TrackIndices \cup {NoIndex}
    /\ Handled /\ IsDefaultForm(user_input)
          /\ (DefaultNumber(user_input) - 1) \notin TrackIndices =>
             current_default = prev_default /\ tracks_to_remove = prev_remove
    /\ Handled /\ IsSelectionForm(user_input)
          /\ ~ValidSelection(user_input, Len(Tracks)) =>
             current_default = prev_default /\ tracks_to_remove = prev_remove

\* "3" was typed in a session over two tracks with index 1 marked and index 0
\* the default: the line was rejected and both are as before
C35_Witness ==
    /\ Handled
    /\ Len(Tracks) = 2
    /\ user_input = <<"3">>
    /\ prev_remove = {1}
    /\ prev_default = 0
    /\ tracks_to_remove = {1}
    /\ current_default = 0

====
